---------------------------- MODULE Spec2Model ----------------------------
(***************************************************************************)
(* A model of the schema profiler's core: the table processing strategies  *)
(* (src/src/profiler/processing_strategies.py), the change detector and    *)
(* the incremental profiling manager (src/src/profiler/                     *)
(* incremental_manager.py) and the orchestrating / unified profiler        *)
(* (src/src/profiler/profiler_factory.py).                                  *)
(*                                                                         *)
(* Table names are small integers; "sorted by table name" is the integer   *)
(* order.                                                                  *)
(***************************************************************************)
EXTENDS Integers, Sequences, FiniteSets, TLC

(***************************************************************************)
(* Bounds of the model.                                                    *)
(***************************************************************************)
\* table names of the processing model are 1..NumTables
NumTables == 2
\* config.max_workers ranges over 1..MaxWorkers (validation: >= 1)
MaxWorkers == 2
\* config.max_connections ranges over 0..MaxConnections (not validated)
MaxConnections == 2
\* config.parallel_threshold ranges over 1..MaxThreshold (validation: >= 1)
MaxThreshold == 2
\* config.query_timeout ranges over 1..MaxTimeout (validation: >= 1); a
\* profile_table call lasts 1..MaxTimeout+1 time units
MaxTimeout == 1
\* UnifiedProfiler.profile_schema is called at most MaxRuns times
MaxRuns == 2
\* the row counts given to _has_data_changes are 0..MaxCount
MaxCount == 12
\* save_state is called at most MaxSaves times
MaxSaves == 2
\* json.dump writes a state in MaxChunks pieces
MaxChunks == 2

\* the longest table list and the largest pool of the dispatch model
MaxTableCount == 12
MaxPoolWorkers == 4

\* the number of versions the pattern configuration file goes through
MaxVersion == 2

\* the most patterns that pass detection for one field
MaxDetected == 3

\* the largest max_size_mb of a cache and the most tables put into it
MaxSizeMb == 1
MaxCached == 4

\* the most rows of a sampled table and the largest sample_data_limit
MaxTableRows == 6
MaxSampleLimit == 6

\* get_sample_data's default limit, and the rows enrich_column_profiles reads
DefaultSampleLimit == 5

\* SimplePatternRecognizer.min_sample_size
MinSampleSize == 3

VARIABLES
    \* ---- process_tables (processing_strategies.py) ----
    tables_info,     \* the input list of table names
    config,          \* the ProfilerConfig fields process_tables reads
    mainPc,          \* where the calling thread is
    processor,       \* the processor that handles the call
    seqIndex,        \* Sequential: the loop index
    submitted,       \* Parallel: how many tasks executor.submit has queued
    task,            \* Parallel: table -> state of its future
    duration,        \* table -> how long its profile_table call ran (0: not yet)
    semaphore,       \* Parallel: permits left in _connection_semaphore
    collected,       \* Parallel: futures as_completed has yielded
    profiles,        \* the list of profiles built so far / returned
    failing,         \* the tables whose metadata extraction raises
    invoked,         \* table -> how many profile_table calls it has had
    \* ---- incremental profiling (incremental_manager.py, profiler_factory.py) ----
    db,              \* the database: table -> its columns and rows, or Absent
    stateFile,       \* the file at incremental_state_path
    cache,           \* MemoryProfileCache.cache: table -> profile, or NoProfile
    clock,           \* the number of profile_schema calls so far (datetime.now())
    cfgv,            \* UnifiedProfiler.config, given at construction
    run,             \* what the last profile_schema call chose and returned
    \* ---- one identify_changed_tables call on given inputs ----
    det,             \* the connector faults during the call and its result
    \* ---- one _has_data_changes call on given inputs ----
    dc,              \* the row counts, the threshold and the result
    \* ---- FileStateManager.save_state step by step ----
    disk,            \* the files at the state path and at the temporary path
    saver,           \* where save_state is, what it saves, what a load returned
    \* ---- load_state on a given file, and the run that follows ----
    ld,              \* the file's document, what load_state and the run returned
    \* ---- two profile_incremental runs in a row ----
    tw,              \* how many of them ran, and what each chose and returned
    \* ---- one AdaptiveTableProcessor.process_tables dispatch ----
    ad,              \* the table list, the configuration and the processor used
    \* ---- FieldPatternRecognizer: detect_patterns against reload_patterns ----
    pr,              \* the recognizer's maps, the config file and both threads
    \* ---- one SimplePatternRecognizer.detect_patterns call ----
    rc,              \* the patterns that passed detection and the list returned
    \* ---- MemoryProfileCache under a run of cache_profile calls ----
    mc,              \* the cache's entries, its limit and what the caller got
    \* ---- one get_complete_table_metadata call ----
    col,             \* the connector's answers and the column profiles built
    \* ---- one profile_table call under a sample_data_limit ----
    sd,              \* the table's rows, the configuration and the profile built
    \* ---- _analyze_schema_relationships over profiled tables ----
    sm,              \* the columns' detected patterns and the summary built
    \* ---- get_complete_table_metadata with failing sub-queries ----
    mq,              \* the sub-queries that fail and the metadata returned
    \* ---- _get_metadata_with_dialect for one query of one dialect ----
    qp,              \* the query, its placeholders and the parameters built
    \* ---- FieldPatternRecognizer: a scoring call against reload_patterns ----
    cf               \* the thread inside detect_patterns_with_confidence

procVars == <<tables_info, config, mainPc, processor, seqIndex, submitted,
              task, duration, semaphore, collected, profiles, failing,
              invoked>>

incVars == <<db, stateFile, cache, clock, cfgv, run>>

saveVars == <<disk, saver>>

\* the variables of the step-by-step models of single operations
opVars == <<ad, pr, rc, mc, col>>

lateVars == <<sd, sm, mq, qp, cf>>

extVars == <<saveVars, ld, tw, opVars, lateVars>>

\* what the steps of one of these models leave alone
notSave == <<procVars, incVars, det, dc, ld, tw, opVars, lateVars>>

notLoad == <<procVars, incVars, det, dc, saveVars, tw, opVars, lateVars>>

notOps == <<procVars, incVars, det, dc, saveVars, ld, tw, lateVars>>

notLate == <<procVars, incVars, det, dc, saveVars, ld, tw, opVars>>

vars == <<procVars, incVars, det, dc, extVars>>

-----------------------------------------------------------------------------
(***************************************************************************)
(* Helpers on sequences.                                                   *)
(***************************************************************************)
Range(s) == {s[i] : i \in 1..Len(s)}

Min(a, b) == IF a <= b THEN a ELSE b

\* the sequences without repetition over a set
Injective(s) == \A i, j \in 1..Len(s) : i # j => s[i] # s[j]

InjectiveSeqs(S) ==
    {s \in UNION {[1..n -> S] : n \in 0..Cardinality(S)} : Injective(s)}

\* list.sort(key=lambda t: t.name): insertion of each element in order.
\* Python's sort is stable; profiles of one call have distinct names.
RECURSIVE InsertByName(_, _)
InsertByName(p, s) ==
    IF s = <<>> THEN <<p>>
    ELSE IF p.name < Head(s).name THEN <<p>> \o s
    ELSE <<Head(s)>> \o InsertByName(p, Tail(s))

RECURSIVE SortByName(_)
SortByName(s) ==
    IF s = <<>> THEN <<>>
    ELSE InsertByName(s[Len(s)], SortByName(SubSeq(s, 1, Len(s) - 1)))

IsSortedByName(s) == \A i \in 1..(Len(s) - 1) : s[i].name <= s[i + 1].name

Names(s) == {s[i].name : i \in 1..Len(s)}

-----------------------------------------------------------------------------
(***************************************************************************)
(* The table processors: processing_strategies.py                          *)
(***************************************************************************)
TableNames == 1..NumTables

Strategies == {"sequential", "parallel", "adaptive"}

\* ProfilerConfig as _validate_config accepts it (config.py 68-95):
\* max_workers >= 1, parallel_threshold >= 1, query_timeout >= 1;
\* max_connections is not validated.
Configs ==
    [strategy : Strategies,
     max_workers : 1..MaxWorkers,
     max_connections : 0..MaxConnections,
     parallel_threshold : 1..MaxThreshold,
     query_timeout : 1..MaxTimeout]

\* how long one profile_table call may run: within the deadline or past it
Durations(cfg) == {1, cfg.query_timeout + 1}

\* CoreSchemaProfiler.profile_table returns a TableProfile for the table: the
\* minimal one (no columns, keys, indexes or sample data, estimated_row_count
\* 0) when get_complete_table_metadata raises (lines 139-153)
TableProfile(t) == [name |-> t, minimal |-> t \in failing]

\* a truth test that takes a profile without columns for false
TruthyUnlessMinimal(profile) == ~profile.minimal

\* "if profile:" (line 83): TableProfile is a dataclass without __bool__ and
\* __len__, so every profile is true
Truthy(profile) == TRUE

\* ParallelTableProcessor.process_tables, line 61
PoolSize(cfg, tables) == Min(cfg.max_workers, Len(tables))

\* a semaphore with one permit more than cfg.max_connections
SemaphoreInitOversized(cfg) == cfg.max_connections + 1

\* ParallelTableProcessor.process_tables, line 65
SemaphoreInit(cfg) == cfg.max_connections

\* AdaptiveTableProcessor.process_tables, line 141
\* a dispatch that needs more tables than the threshold
UseParallelAbove(cfg, tables) ==
    Len(tables) > cfg.parallel_threshold /\ cfg.max_workers > 1

\* AdaptiveTableProcessor.process_tables, the condition of line 141
UseParallel(cfg, tables) ==
    Len(tables) >= cfg.parallel_threshold /\ cfg.max_workers > 1

\* ProcessingStrategyFactory.create_processor and the Adaptive dispatch
ChosenProcessor(cfg, tables) ==
    CASE cfg.strategy = "sequential" -> "sequential"
      [] cfg.strategy = "parallel" -> "parallel"
      [] OTHER -> IF UseParallel(cfg, tables) THEN "parallel" ELSE "sequential"

\* a pool that also runs a work item again after its future is done
TakeableAgain(state) == state \in {"queued", "done"}

\* the executor's work queue: an item is taken once, by the queue.get of one
\* pool thread, and is in the queue from submit until then
Takeable(state) == state = "queued"

\* the futures whose call is inside _profile_table_safe (a pool thread has it)
Busy == {t \in TableNames : task[t] \in {"waiting", "running"}}

\* the profile_table calls in progress
Running == {t \in TableNames : task[t] = "running"}

-----------------------------------------------------------------------------
(***************************************************************************)
(* Values of the incremental model.  A table of the database is described  *)
(* by the number of its columns (its structure: the canonical document of  *)
(* _compute_table_schema_hash lists the columns) and the number of its     *)
(* rows.                                                                   *)
(***************************************************************************)
Abs(x) == IF x < 0 THEN -x ELSE x

RECURSIVE SortedSeqOf(_)
SortedSeqOf(S) ==
    IF S = {} THEN <<>>
    ELSE LET m == CHOOSE x \in S : \A y \in S : x <= y
         IN <<m>> \o SortedSeqOf(S \ {m})

RECURSIVE SumColumns(_)
SumColumns(ps) ==
    IF ps = <<>> THEN 0 ELSE Head(ps).columns + SumColumns(Tail(ps))

\* the names of the tables the profiled database may hold
DbTableNames == {1, 2}

AbsentTable == [present |-> FALSE, cols |-> 0, rows |-> 0]

\* the tables a database may hold: one or two columns, no row or one row
ColumnCounts == {1, 2}

RowCounts == {0, 1}

DbTables ==
    {AbsentTable} \cup [present : {TRUE}, cols : ColumnCounts, rows : RowCounts]

\* cache.get(table_name) of a table that is not cached is None
NoProfile == [name |-> 0, columns |-> 0, row_count |-> 0]

\* a table_states entry that does not exist
NoEntry ==
    [known |-> FALSE, schema_hash |-> 0, row_count |-> 0, last_modified |-> 0,
     structure_changed |-> FALSE, data_changed |-> FALSE]

\* no file at incremental_state_path
NoFile ==
    [exists |-> FALSE, form |-> "valid", ts |-> 0,
     table_states |-> [t \in DbTableNames |-> NoEntry]]

\* a state file that fails validate_state: unparseable JSON, a missing
\* required field, a malformed timestamp
InvalidFile ==
    [exists |-> TRUE, form |-> "invalid", ts |-> 0,
     table_states |-> [t \in DbTableNames |-> NoEntry]]

\* a state file that passes validate_state and makes IncrementalState.from_dict
\* raise: a table entry of it has lost its last_modified key
UnparseableFile(file) == [file EXCEPT !.form = "unparseable"]

HasEntries(file) == \E t \in DbTableNames : file.table_states[t].known

\* SchemaProfile(...) with the dataclass defaults (schema_models.py 158-173)
EmptySchemaProfile == [total_tables |-> 0, total_columns |-> 0, tables |-> <<>>]

\* data_change_threshold in percent (config.py 76: 0.0 <= threshold <= 1.0)
Thresholds == {0, 100}

IncConfigs ==
    [incremental_enabled : BOOLEAN,
     force_full_profile : BOOLEAN,
     data_change_threshold : Thresholds]

\* the steps of profile_incremental's try block at which an exception is injected
Steps == {"load_state", "get_tables_info", "identify_changed_tables",
          "profile_changed_tables", "merge_profiles"}

\* what goes wrong during one call: the connector errors on the table listing
\* (listFail), on the structure queries of some tables (metaFail), on the
\* row count query of some tables (rowFail); or a step raises (raiseAt); or
\* save_state raises (saveFails); or profile_table of some tables hits an
\* exception after its queries and returns the minimal profile (profileFail)
AllFaults ==
    [listFail : BOOLEAN,
     metaFail : SUBSET DbTableNames,
     rowFail : SUBSET DbTableNames,
     profileFail : SUBSET DbTableNames,
     raiseAt : Steps \cup {"none"},
     saveFails : BOOLEAN]

ConnectorFault(f) == f.listFail \/ f.metaFail # {} \/ f.rowFail # {}

\* one connector, step or save fault per call
Faults ==
    {f \in AllFaults :
        /\ f.profileFail = {}
        /\ Cardinality({k \in 1..3 : <<f.listFail, f.raiseAt # "none", f.saveFails>>[k]})
             + Cardinality(f.metaFail \cup f.rowFail) <= 1}

NoFaults ==
    [listFail |-> FALSE, metaFail |-> {}, rowFail |-> {}, profileFail |-> {},
     raiseAt |-> "none", saveFails |-> FALSE]

-----------------------------------------------------------------------------
(***************************************************************************)
(* Metadata extraction: metadata_extractor.py, database_query.py           *)
(***************************************************************************)
\* MetadataExtractor.get_tables_info: ORDER BY table_name; _execute_query_safe
\* returns [] when the connector raises
GetTablesInfo(d, f) ==
    IF f.listFail THEN <<>>
    ELSE SortedSeqOf({t \in DbTableNames : d[t].present})

\* MetadataExtractor.get_row_count: the default 0 when the query fails
GetRowCount(d, t, f) == IF t \in f.rowFail THEN 0 ELSE d[t].rows

\* the number of columns get_column_profiles returns: none when the query fails
GetColumnProfiles(d, t, f) == IF t \in f.metaFail THEN 0 ELSE d[t].cols

\* hashlib.md5 of the canonical document: one digest per document
Md5(doc) == 1 + doc

\* DatabaseChangeDetector._compute_table_schema_hash
ComputeTableSchemaHash(d, t, f) == Md5(GetColumnProfiles(d, t, f))

\* the profile of core_profiler.py 139-153: no columns, row count 0
MinimalProfile(t) == [name |-> t, columns |-> 0, row_count |-> 0]

\* CoreSchemaProfiler.profile_table
ProfileTable(d, t, f) ==
    IF t \in f.profileFail THEN MinimalProfile(t)
    ELSE [name |-> t, columns |-> GetColumnProfiles(d, t, f),
          row_count |-> GetRowCount(d, t, f)]

-----------------------------------------------------------------------------
(***************************************************************************)
(* State manager and change detector: incremental_manager.py               *)
(***************************************************************************)
\* FileStateManager.load_state: None (here: NoFile) when the file is missing
\* or fails validate_state
LoadState(file) ==
    IF file.exists /\ file.form # "invalid" THEN file ELSE NoFile

\* IncrementalState.from_dict / TableChangeInfo.from_dict raise
FromDictRaises(data) == data.form = "unparseable"

\* DatabaseChangeDetector._has_schema_changes
HasSchemaChanges(current_hash, previous_hash) == current_hash # previous_hash

\* a comparison that also fires when the ratio equals the threshold
HasDataChangesAtLeast(current_row_count, previous_row_count, threshold) ==
    IF previous_row_count > 0
    THEN Abs(current_row_count - previous_row_count) * 100
            >= threshold * previous_row_count
    ELSE current_row_count > 0

\* DatabaseChangeDetector._has_data_changes; threshold in percent
HasDataChanges(current_row_count, previous_row_count, threshold) ==
    IF previous_row_count > 0
    THEN Abs(current_row_count - previous_row_count) * 100
            > threshold * previous_row_count
    ELSE current_row_count > 0

\* a test that looks at the structure only
TableChangedSchemaOnly(d, t, previous, cfg, f) ==
    HasSchemaChanges(ComputeTableSchemaHash(d, t, f),
                     previous.table_states[t].schema_hash)

\* the test of lines 226-236 for one table of the previous state
TableChanged(d, t, previous, cfg, f) ==
    \/ HasSchemaChanges(ComputeTableSchemaHash(d, t, f),
                        previous.table_states[t].schema_hash)
    \/ HasDataChanges(GetRowCount(d, t, f), previous.table_states[t].row_count,
                      cfg.data_change_threshold)

\* DatabaseChangeDetector.identify_changed_tables
IdentifyChangedTables(current_tables, previous, cfg, d, f) ==
    IF cfg.force_full_profile \/ ~previous.exists THEN current_tables
    ELSE IF FromDictRaises(previous) THEN current_tables
    ELSE LET IsNew(t) == ~previous.table_states[t].known
             IsChanged(t) == /\ previous.table_states[t].known
                             /\ TableChanged(d, t, previous, cfg, f)
         IN SelectSeq(current_tables, IsNew) \o SelectSeq(current_tables, IsChanged)

-----------------------------------------------------------------------------
(***************************************************************************)
(* IncrementalProfilingManager and the profilers it is given               *)
(***************************************************************************)
ProfileEach(d, tables, f) == [i \in 1..Len(tables) |-> ProfileTable(d, tables[i], f)]

\* MemoryProfileCache.cache_profile for every profile of a list
CacheAll(ch, ps) ==
    [t \in DbTableNames |->
        IF \E i \in 1..Len(ps) : ps[i].name = t
        THEN ps[CHOOSE i \in 1..Len(ps) : ps[i].name = t]
        ELSE ch[t]]

\* the cached profiles of the tables of a list, in the list's order
CachedProfiles(ch, tables) ==
    LET IsCached(t) == ch[t] # NoProfile
        hit == SelectSeq(tables, IsCached)
    IN [i \in 1..Len(hit) |-> ch[hit[i]]]

\* OrchestatingProfiler.profile_schema (profiler_factory.py 121-178): every
\* processor returns one profile per table of tables_info (profile_table does
\* not raise), and tables_info is in name order
ProfileSchemaFull(d, f) ==
    LET tables == GetTablesInfo(d, f)
        table_profiles == ProfileEach(d, tables, f)
    IN IF tables = <<>> THEN EmptySchemaProfile
       ELSE [total_tables |-> Len(tables),
             total_columns |-> SumColumns(table_profiles),
             tables |-> table_profiles]

\* a _load_cached_schema_profile that does not add up the columns
LoadCachedSchemaProfileNoSum(current_tables, ch) ==
    [total_tables |-> Len(current_tables),
     total_columns |-> 0,
     tables |-> CachedProfiles(ch, current_tables)]

\* IncrementalProfilingManager._load_cached_schema_profile
LoadCachedSchemaProfile(current_tables, ch) ==
    LET cached == CachedProfiles(ch, current_tables)
    IN [total_tables |-> Len(current_tables),
        total_columns |-> SumColumns(cached),
        tables |-> cached]

\* IncrementalProfilingManager._merge_profiles
MergeProfiles(current_tables, changed_profiles, ch) ==
    LET Unchanged(t) == t \notin Names(changed_profiles)
        tables == changed_profiles
                    \o CachedProfiles(ch, SelectSeq(current_tables, Unchanged))
    IN [total_tables |-> Len(current_tables),
        total_columns |-> SumColumns(tables),
        tables |-> SortByName(tables)]

\* an update that stamps every entry with the time of the run
LastModifiedNow(was_profiled, now, previous) == now

\* _update_state, lines 525-526: now for a table profiled in this run, the
\* previous entry's value otherwise
LastModified(was_profiled, now, previous) ==
    IF was_profiled THEN now ELSE previous

\* whether _update_state swallows what save_state raises (lines 542-545)
UpdateStateCatches == TRUE

\* IncrementalProfilingManager._update_state: the file it leaves
UpdateState(file, current_tables, profiled_tables, d, f, now) ==
    LET existing == LoadState(file)
        entry(t) ==
            IF t \in Range(current_tables)
            THEN [known |-> TRUE,
                  schema_hash |-> ComputeTableSchemaHash(d, t, f),
                  row_count |-> GetRowCount(d, t, f),
                  last_modified |->
                      LastModified(t \in Range(profiled_tables), now,
                                   existing.table_states[t].last_modified),
                  structure_changed |-> FALSE,
                  data_changed |-> FALSE]
            ELSE NoEntry
    IN IF existing.exists /\ FromDictRaises(existing) THEN file
       ELSE IF f.saveFails THEN file
       ELSE [exists |-> TRUE, form |-> "valid", ts |-> now,
             table_states |-> [t \in DbTableNames |-> entry(t)]]

\* a try block that lets what _merge_profiles raises escape
CaughtExceptMerge(step) == step # "merge_profiles"

\* whether the try block of profile_incremental (lines 366-406) catches what
\* a step raises
Caught(step) == TRUE

\* IncrementalProfilingManager.profile_incremental: what it returns and what
\* it leaves in the cache and in the state file
ProfileIncremental(d, file, ch, now, cfg, f) ==
    LET previous == LoadState(file)
        current_tables == GetTablesInfo(d, f)
        selected == IdentifyChangedTables(current_tables, previous, cfg, d, f)
        changed_profiles == ProfileEach(d, selected, f)
        cache1 == CacheAll(ch, changed_profiles)
        Out(path, raised, tabs, sel, res, c, sf, saveFailed) ==
            [path |-> path, raised |-> raised, tables |-> tabs, selected |-> sel,
             result |-> res, cache |-> c, stateFile |-> sf,
             saveFailed |-> saveFailed]
        Fallback(step, tabs, sel, c) ==
            IF Caught(step)
            THEN Out("fallback", step, tabs, sel, ProfileSchemaFull(d, f), c, file,
                     step = "save_state")
            ELSE Out("error", step, tabs, sel, EmptySchemaProfile, c, file,
                     step = "save_state")
    IN IF f.raiseAt = "load_state"
       THEN Fallback("load_state", <<>>, <<>>, ch)
       ELSE IF f.raiseAt = "get_tables_info"
       THEN Fallback("get_tables_info", <<>>, <<>>, ch)
       ELSE IF current_tables = <<>>
       THEN Out("empty", "none", <<>>, <<>>, EmptySchemaProfile, ch, file, FALSE)
       ELSE IF f.raiseAt = "identify_changed_tables"
       THEN Fallback("identify_changed_tables", current_tables, <<>>, ch)
       ELSE IF selected = <<>>
       THEN Out("cached", "none", current_tables, selected,
                LoadCachedSchemaProfile(current_tables, ch), ch, file, FALSE)
       ELSE IF f.raiseAt = "profile_changed_tables"
       THEN Fallback("profile_changed_tables", current_tables, selected, ch)
       ELSE IF f.raiseAt = "merge_profiles"
       THEN Fallback("merge_profiles", current_tables, selected, cache1)
       ELSE IF f.saveFails /\ ~UpdateStateCatches
       THEN Fallback("save_state", current_tables, selected, cache1)
       ELSE Out("merged", "none", current_tables, selected,
                MergeProfiles(current_tables, changed_profiles, cache1), cache1,
                UpdateState(file, current_tables, selected, d, f, now),
                f.saveFails)

\* UnifiedProfiler.profile_schema (profiler_factory.py 227-242)
UnifiedProfileSchema(d, file, ch, now, cfg, f) ==
    IF cfg.incremental_enabled
    THEN ProfileIncremental(d, file, ch, now, cfg, f)
    ELSE [path |-> "full", raised |-> "none", tables |-> GetTablesInfo(d, f),
          selected |-> <<>>, result |-> ProfileSchemaFull(d, f),
          cache |-> ch, stateFile |-> file, saveFailed |-> FALSE]

NoRun ==
    [path |-> "none", raised |-> "none", saveFailed |-> FALSE, tables |-> <<>>,
     selected |-> <<>>, result |-> EmptySchemaProfile, failed |-> {}]

NoDetection ==
    [done |-> FALSE, faults |-> NoFaults, tables |-> <<>>, selected |-> <<>>]

NoDataCheck ==
    [previous |-> 0, current |-> 0, threshold |-> 0, done |-> FALSE,
     changed |-> FALSE]

\* no save_state call: no file at either path
NoContent == [version |-> 0, written |-> 0]

SaveIdle ==
    /\ disk = [main |-> NoContent, tmp |-> NoContent]
    /\ saver = [pc |-> "idle", version |-> 0, saved |-> 0, sameFile |-> FALSE,
                ran |-> FALSE, found |-> NoContent, loaded |-> 0]

\* a state file document that was written whole by this implementation
WholeDocument ==
    [exists |-> TRUE, json |-> TRUE, is_object |-> TRUE,
     fields |-> {"database_name", "last_profile_timestamp", "table_states"},
     timestamp_ok |-> TRUE, states_is_dict |-> TRUE,
     entry_fields |-> {"table_name", "schema_hash", "row_count", "last_modified"},
     version_matches |-> TRUE]

NoLoad ==
    [doc |-> WholeDocument, done |-> FALSE, raised |-> FALSE, loaded |-> FALSE,
     tables |-> <<>>, selected |-> <<>>, profiled |-> {}]

NoRuns == [step |-> 0, first |-> NoRun, second |-> NoRun]

\* no process_tables call of an AdaptiveTableProcessor yet
NoDispatch ==
    [tables |-> <<>>, cfg |-> [parallel_threshold |-> 0, max_workers |-> 1],
     used |-> "none"]

\* the pattern keys a configuration file defines
PatternKeys == {1, 2}

\* FieldPatternRecognizer after __init__ loaded version 1 of the file: both
\* maps hold that version, nobody holds _patterns_lock, no call is running
NoRecognizer ==
    [file |-> 1, patterns |-> 1, compiled |-> 1, holders |-> {},
     dpc |-> "idle", entry |-> 0, snapC |-> 0, snapP |-> 0, todo |-> {},
     tested |-> {}, rpc |-> "idle", new |-> 0]

\* no SimplePatternRecognizer.detect_patterns call yet
NoDetectionCall == [detected |-> <<>>, result |-> <<>>, done |-> FALSE]

\* MemoryProfileCache(max_size_mb=0) before any cache_profile call
NoCache == [cache |-> {}, max_size_mb |-> 0, returned |-> {}]

\* the columns of the table get_complete_table_metadata is asked about
ColumnNames == {1, 2}

\* a ColumnProfile before anything is known of the column (schema_models.py
\* 28-31: is_primary_key and is_unique default to False)
BlankColumn ==
    [is_nullable |-> FALSE, is_primary_key |-> FALSE, is_unique |-> FALSE,
     is_indexed |-> FALSE]

\* no get_complete_table_metadata call yet
NoMetadata ==
    [db_type |-> "mysql",
     table |-> [c \in ColumnNames |->
                  [in_pk |-> FALSE, is_nullable |-> "YES", index |-> "none"]],
     columns |-> [c \in ColumnNames |-> BlankColumn],
     done |-> FALSE]

\* no profile_table call under a sample_data_limit yet
NoSample ==
    [rows |-> 0,
     cfg |-> [sample_data_limit |-> 0, include_sample_data |-> FALSE,
              pattern_recognition_enabled |-> FALSE],
     matches |-> FALSE, sample_data |-> 0, sample_values |-> 0,
     detected |-> FALSE, done |-> FALSE]

\* the columns of all profiled tables together, and the patterns a column
\* can carry
ColumnSlots == {1, 2, 3}
PatternSet == {"email_address", "phone_number"}

\* SchemaProfile.pattern_summary as the constructor leaves it: no key
EmptySummary == [p \in {} |-> 0]

\* no schema has been assembled yet
NoSummary ==
    [columns |-> [c \in ColumnSlots |-> {}],
     cfg |-> [validate_relationships |-> FALSE,
              pattern_recognition_enabled |-> FALSE],
     fks |-> {}, path |-> "none", summary |-> EmptySummary,
     relationships |-> {}, done |-> FALSE]

\* the sub-queries get_complete_table_metadata sends for one table
SubQueryNames ==
    {"columns", "primary_keys", "foreign_keys", "indexes", "sample_data",
     "row_count"}

\* the metadata dictionary before anything was fetched
NoTableMetadata ==
    [raised |-> FALSE, columns |-> {}, primary_keys |-> {},
     foreign_keys |-> {}, indexes |-> {}, sample_data |-> 0, row_count |-> 0,
     self_referencing_columns |-> {}, potential_fk_candidates |-> {}]

\* no get_complete_table_metadata call under connector failures yet
NoSubQueries ==
    [failing |-> {},
     table |-> [column_key |-> "none", primary_keys |-> {},
                foreign_keys |-> {}, indexes |-> {}, rows |-> 0],
     metadata |-> NoTableMetadata, done |-> FALSE]

\* no metadata query has been prepared yet
NoQuery ==
    [db_type |-> "mysql", query |-> "tables_query", schema_name |-> "",
     table_name |-> "t", placeholders |-> 0, params |-> <<>>, done |-> FALSE]

\* no detect_patterns_with_confidence and no validate_value call yet
NoScoring ==
    [spc |-> "idle", sorted |-> 0, todo |-> {}, scored |-> {},
     vpc |-> "idle", validated |-> "none"]

\* every step-by-step model but the named one is idle
ExtIdleExcept(model) ==
    /\ model = "save" \/ SaveIdle
    /\ model = "load" \/ ld = NoLoad
    /\ model = "twice" \/ tw = NoRuns
    /\ model = "adaptive" \/ ad = NoDispatch
    /\ model \in {"reload", "confidence"} \/ pr = NoRecognizer
    /\ model = "resolve" \/ rc = NoDetectionCall
    /\ model = "cache" \/ mc = NoCache
    /\ model = "columns" \/ col = NoMetadata
    /\ model = "sample" \/ sd = NoSample
    /\ model = "summary" \/ sm = NoSummary
    /\ model = "subqueries" \/ mq = NoSubQueries
    /\ model = "parameters" \/ qp = NoQuery
    /\ model = "confidence" \/ cf = NoScoring

ExtIdle == ExtIdleExcept("none")

IncIdle ==
    /\ db = [t \in DbTableNames |-> AbsentTable]
    /\ stateFile = NoFile
    /\ cache = [t \in DbTableNames |-> NoProfile]
    /\ clock = 0
    /\ cfgv = [incremental_enabled |-> FALSE, force_full_profile |-> FALSE,
               data_change_threshold |-> 0]
    /\ run = NoRun

ProcIdle ==
    /\ tables_info = <<>>
    /\ config = [strategy |-> "sequential", max_workers |-> 1, max_connections |-> 0,
                 parallel_threshold |-> 1, query_timeout |-> 1]
    /\ mainPc = "idle"
    /\ processor = "none"
    /\ seqIndex = 0
    /\ submitted = 0
    /\ task = [t \in TableNames |-> "new"]
    /\ duration = [t \in TableNames |-> 0]
    /\ semaphore = 0
    /\ collected = {}
    /\ profiles = <<>>
    /\ failing = {}
    /\ invoked = [t \in TableNames |-> 0]

\* UnifiedProfiler(connector, config) in a fresh process: no state file, an
\* empty cache, any database
IncInit ==
    /\ ProcIdle
    /\ ExtIdle
    /\ det = NoDetection
    /\ dc = NoDataCheck
    /\ db \in [DbTableNames -> DbTables]
    /\ stateFile = NoFile
    /\ cache = [t \in DbTableNames |-> NoProfile]
    /\ clock = 0
    /\ cfgv \in IncConfigs
    /\ run = NoRun

\* one call of UnifiedProfiler.profile_schema()
ProfileSchemaUnder(faults) ==
    /\ clock < MaxRuns
    /\ \E f \in faults :
         \E out \in {UnifiedProfileSchema(db, stateFile, cache, clock + 1, cfgv, f)} :
            /\ run' = [path |-> out.path, raised |-> out.raised,
                       saveFailed |-> out.saveFailed,
                       tables |-> out.tables, selected |-> out.selected,
                       result |-> out.result,
                       failed |-> IF out.path = "merged"
                                  THEN f.profileFail \cap Range(out.selected)
                                  ELSE {}]
            /\ cache' = out.cache
            /\ stateFile' = out.stateFile
    /\ clock' = clock + 1
    /\ UNCHANGED <<db, cfgv>>
    /\ UNCHANGED <<procVars, det, dc, extVars>>

\* UnifiedProfiler.profile_schema is called (profiler_factory.py 229-260)
ProfileSchema == ProfileSchemaUnder(Faults)

\* Between two calls one thing happens outside the profiler, and the caller
\* has taken the result of the last call.
\* The database changes: a table is created, dropped, altered, or its rows
\* change.
ChangeTable ==
    /\ clock < MaxRuns
    /\ run.path # "none"
    /\ \E t \in DbTableNames, e \in DbTables :
         /\ e # db[t]
         /\ db' = [db EXCEPT ![t] = e]
    /\ run' = NoRun
    /\ UNCHANGED <<stateFile, cache, clock, cfgv>>
    /\ UNCHANGED <<procVars, det, dc, extVars>>

\* the state file is damaged from outside
DamageStateFile ==
    /\ clock < MaxRuns
    /\ run.path # "none"
    /\ stateFile.exists
    /\ stateFile.form = "valid"
    /\ \/ stateFile' = InvalidFile
       \/ HasEntries(stateFile) /\ stateFile' = UnparseableFile(stateFile)
    /\ run' = NoRun
    /\ UNCHANGED <<db, cache, clock, cfgv>>
    /\ UNCHANGED <<procVars, det, dc, extVars>>

\* the process ends and a new one starts: the MemoryProfileCache is empty
RestartProcess ==
    /\ clock < MaxRuns
    /\ run.path # "none"
    /\ cache # [t \in DbTableNames |-> NoProfile]
    /\ cache' = [t \in DbTableNames |-> NoProfile]
    /\ run' = NoRun
    /\ UNCHANGED <<db, stateFile, clock, cfgv>>
    /\ UNCHANGED <<procVars, det, dc, extVars>>

IncNext ==
    \/ ProfileSchema
    \/ ChangeTable
    \/ DamageStateFile
    \/ RestartProcess

SpecInc == IncInit /\ [][IncNext]_vars

-----------------------------------------------------------------------------
(***************************************************************************)
(* identify_changed_tables applied to given inputs: a database, a state    *)
(* file an earlier run of any process left (or none, or a damaged one), a  *)
(* configuration and the connector's faults during the call.               *)
(***************************************************************************)
\* the entries _update_state can write for a table
WrittenEntries ==
    [known : {TRUE},
     schema_hash : {ComputeTableSchemaHash([x \in DbTableNames |-> e], t, f) :
                      e \in DbTables \ {AbsentTable}, t \in DbTableNames,
                      f \in {NoFaults, [NoFaults EXCEPT !.metaFail = DbTableNames]}},
     row_count : RowCounts,
     last_modified : {1},
     structure_changed : {FALSE},
     data_changed : {FALSE}]

ValidFiles ==
    [exists : {TRUE}, form : {"valid"}, ts : {1},
     table_states : [DbTableNames -> WrittenEntries \cup {NoEntry}]]

StateFiles ==
    {NoFile, InvalidFile} \cup ValidFiles
      \cup {UnparseableFile(file) : file \in {v \in ValidFiles : HasEntries(v)}}

LookupFaults == {f \in AllFaults : ~f.listFail /\ f.raiseAt = "none" /\ ~f.saveFails}

DetectInit ==
    /\ ProcIdle
    /\ ExtIdle
    /\ dc = NoDataCheck
    /\ db \in [DbTableNames -> DbTables]
    /\ stateFile \in StateFiles
    /\ cache = [t \in DbTableNames |-> NoProfile]
    /\ clock = 0
    /\ cfgv \in {c \in IncConfigs : c.incremental_enabled}
    /\ run = NoRun
    /\ det \in {[NoDetection EXCEPT !.faults = f] : f \in LookupFaults}

\* lines 368-383 of profile_incremental: load_state, get_tables_info,
\* identify_changed_tables
Detect ==
    /\ ~det.done
    /\ det' = [det EXCEPT
                 !.done = TRUE,
                 !.tables = GetTablesInfo(db, det.faults),
                 !.selected = IdentifyChangedTables(GetTablesInfo(db, det.faults),
                                  LoadState(stateFile), cfgv, db, det.faults)]
    /\ UNCHANGED <<procVars, incVars, dc, extVars>>

DetectNext == Detect

SpecDetect == DetectInit /\ [][DetectNext]_vars

-----------------------------------------------------------------------------
(***************************************************************************)
(* _has_data_changes applied to given row counts and a given threshold     *)
(* (in percent).                                                           *)
(***************************************************************************)
ThresholdsPct == {0, 10, 50, 100}

DataInit ==
    /\ ProcIdle
    /\ ExtIdle
    /\ IncIdle
    /\ det = NoDetection
    /\ dc \in [previous : 0..MaxCount, current : 0..MaxCount,
               threshold : ThresholdsPct, done : {FALSE}, changed : {FALSE}]

CheckData ==
    /\ ~dc.done
    /\ dc' = [dc EXCEPT !.done = TRUE,
                        !.changed = HasDataChanges(dc.current, dc.previous,
                                                   dc.threshold)]
    /\ UNCHANGED <<procVars, incVars, det, extVars>>

DataNext == CheckData

SpecData == DataInit /\ [][DataNext]_vars

-----------------------------------------------------------------------------
ProcInit ==
    /\ IncIdle
    /\ ExtIdle
    /\ det = NoDetection
    /\ dc = NoDataCheck
    /\ tables_info \in InjectiveSeqs(TableNames)
    /\ config \in Configs
    /\ mainPc = "call"
    /\ processor = "none"
    /\ seqIndex = 0
    /\ submitted = 0
    /\ task = [t \in TableNames |-> "new"]
    /\ duration = [t \in TableNames |-> 0]
    /\ semaphore = 0
    /\ collected = {}
    /\ profiles = <<>>
    /\ failing \in {{}} \cup {{t} : t \in Range(tables_info)}
    /\ invoked = [t \in TableNames |-> 0]

\* SequentialTableProcessor.process_tables is entered (directly or from Adaptive)
SequentialStart ==
    /\ mainPc = "call"
    /\ ChosenProcessor(config, tables_info) = "sequential"
    /\ processor' = "sequential"
    /\ mainPc' = "loop"
    /\ UNCHANGED <<incVars, det, dc, extVars, failing, invoked>>
    /\ UNCHANGED <<tables_info, config, seqIndex, submitted, task, duration,
                   semaphore, collected, profiles>>

\* one iteration of the loop of lines 31-42: profile_table, append
SequentialStep ==
    /\ mainPc = "loop"
    /\ seqIndex < Len(tables_info)
    /\ \E d \in Durations(config) :
         duration' = [duration EXCEPT ![tables_info[seqIndex + 1]] = d]
    /\ profiles' = Append(profiles, TableProfile(tables_info[seqIndex + 1]))
    /\ seqIndex' = seqIndex + 1
    /\ invoked' = [invoked EXCEPT ![tables_info[seqIndex + 1]] = @ + 1]
    /\ UNCHANGED <<incVars, det, dc, extVars, failing>>
    /\ UNCHANGED <<tables_info, config, mainPc, processor, submitted, task,
                   semaphore, collected>>

\* line 45: return profiles (no sort)
SequentialReturn ==
    /\ mainPc = "loop"
    /\ seqIndex = Len(tables_info)
    /\ mainPc' = "done"
    /\ UNCHANGED <<incVars, det, dc, extVars, failing, invoked>>
    /\ UNCHANGED <<tables_info, config, processor, seqIndex, submitted, task,
                   duration, semaphore, collected, profiles>>

\* ParallelTableProcessor.process_tables, lines 61-69: the semaphore is made,
\* then the pool; ThreadPoolExecutor(max_workers=0) raises ValueError
ParallelStart ==
    /\ mainPc = "call"
    /\ ChosenProcessor(config, tables_info) = "parallel"
    /\ processor' = "parallel"
    /\ semaphore' = SemaphoreInit(config)
    /\ mainPc' = IF PoolSize(config, tables_info) <= 0 THEN "raised" ELSE "submit"
    /\ UNCHANGED <<incVars, det, dc, extVars, failing, invoked>>
    /\ UNCHANGED <<tables_info, config, seqIndex, submitted, task, duration,
                   collected, profiles>>

\* lines 71-74: executor.submit of the next table, in input order
Submit ==
    /\ mainPc = "submit"
    /\ submitted < Len(tables_info)
    /\ task' = [task EXCEPT ![tables_info[submitted + 1]] = "queued"]
    /\ submitted' = submitted + 1
    /\ UNCHANGED <<incVars, det, dc, extVars, failing, invoked>>
    /\ UNCHANGED <<tables_info, config, mainPc, processor, seqIndex, duration,
                   semaphore, collected, profiles>>

\* all tasks submitted: the as_completed loop (line 78) starts
SubmitDone ==
    /\ mainPc = "submit"
    /\ submitted = Len(tables_info)
    /\ mainPc' = "collect"
    /\ UNCHANGED <<incVars, det, dc, extVars, failing, invoked>>
    /\ UNCHANGED <<tables_info, config, processor, seqIndex, submitted, task,
                   duration, semaphore, collected, profiles>>

\* a pool thread takes the oldest queued work item and enters
\* _profile_table_safe; the pool has PoolSize threads at most
WorkerTake ==
    /\ processor = "parallel"
    /\ Cardinality(Busy) < PoolSize(config, tables_info)
    /\ \E i \in 1..submitted :
         /\ Takeable(task[tables_info[i]])
         /\ \A j \in 1..(i - 1) : ~Takeable(task[tables_info[j]])
         /\ task' = [task EXCEPT ![tables_info[i]] = "waiting"]
    /\ UNCHANGED <<incVars, det, dc, extVars, failing, invoked>>
    /\ UNCHANGED <<tables_info, config, mainPc, processor, seqIndex, submitted,
                   duration, semaphore, collected, profiles>>

\* line 104: with self._connection_semaphore (acquire), then profile_table starts
WorkerAcquire ==
    /\ \E t \in TableNames :
         /\ task[t] = "waiting"
         /\ semaphore > 0
         /\ semaphore' = semaphore - 1
         /\ task' = [task EXCEPT ![t] = "running"]
         /\ invoked' = [invoked EXCEPT ![t] = @ + 1]
    /\ UNCHANGED <<incVars, det, dc, extVars, failing>>
    /\ UNCHANGED <<tables_info, config, mainPc, processor, seqIndex, submitted,
                   duration, collected, profiles>>

\* lines 104-121: profile_table returns, the permit is released, the future
\* is done
WorkerFinish ==
    /\ \E t \in TableNames :
         /\ task[t] = "running"
         /\ \E d \in Durations(config) :
              duration' = [duration EXCEPT ![t] = d]
         /\ semaphore' = semaphore + 1
         /\ task' = [task EXCEPT ![t] = "done"]
    /\ UNCHANGED <<incVars, det, dc, extVars, failing, invoked>>
    /\ UNCHANGED <<tables_info, config, mainPc, processor, seqIndex, submitted,
                   collected, profiles>>

\* lines 78-93: as_completed yields a finished future; future.result(timeout)
\* of a finished future returns at once; a TableProfile is truthy
Collect ==
    /\ mainPc = "collect"
    /\ \E t \in TableNames :
         /\ task[t] = "done"
         /\ t \notin collected
         /\ collected' = collected \cup {t}
         /\ profiles' = IF Truthy(TableProfile(t))
                        THEN Append(profiles, TableProfile(t))
                        ELSE profiles
    /\ UNCHANGED <<incVars, det, dc, extVars, failing, invoked>>
    /\ UNCHANGED <<tables_info, config, mainPc, processor, seqIndex, submitted,
                   task, duration, semaphore>>

\* lines 95-99: every future was yielded; sort by name and return
ParallelReturn ==
    /\ mainPc = "collect"
    /\ collected = Range(tables_info)
    /\ profiles' = SortByName(profiles)
    /\ mainPc' = "done"
    /\ UNCHANGED <<incVars, det, dc, extVars, failing, invoked>>
    /\ UNCHANGED <<tables_info, config, processor, seqIndex, submitted, task,
                   duration, semaphore, collected>>

ProcNext ==
    \/ SequentialStart
    \/ SequentialStep
    \/ SequentialReturn
    \/ ParallelStart
    \/ Submit
    \/ SubmitDone
    \/ WorkerTake
    \/ WorkerAcquire
    \/ WorkerFinish
    \/ Collect
    \/ ParallelReturn

SpecProc == ProcInit /\ [][ProcNext]_vars


-----------------------------------------------------------------------------
(***************************************************************************)
(* Properties of ParallelTableProcessor, SequentialTableProcessor and      *)
(* AdaptiveTableProcessor (SpecProc)                                       *)
(***************************************************************************)
\* C1: while ParallelTableProcessor.process_tables runs, the number of
\* profile_table calls in progress is at most min(cfg.max_workers, number of
\* tables) and at most cfg.max_connections.
C1_InProgressBounded ==
    processor = "parallel" =>
        /\ Cardinality(Running) <= Min(config.max_workers, Len(tables_info))
        /\ Cardinality(Running) <= config.max_connections

\* the semaphore binds: every permit is taken and a worker waits for one
C1_SemaphoreBinds ==
    /\ processor = "parallel"
    /\ config.max_connections >= 1
    /\ Cardinality(Running) = config.max_connections
    /\ \E t \in TableNames : task[t] = "waiting"

\* C5: for every strategy and every input order, the list process_tables
\* returns is in ascending order of table name.
C5_OutputSorted == mainPc = "done" => IsSortedByName(profiles)

\* C6: the Parallel strategy leaves out of its result every table whose
\* profile_table call ran longer than cfg.query_timeout (and returns the
\* others).
C6_SlowTableOmitted ==
    (mainPc = "done" /\ processor = "parallel") =>
        /\ \A t \in Range(tables_info) :
              duration[t] > config.query_timeout => t \notin Names(profiles)
        /\ \A t \in Range(tables_info) :
              duration[t] <= config.query_timeout => t \in Names(profiles)

\* C15: for every strategy, when the metadata extraction of one table raises,
\* the run does not raise, that table is in the result as a minimal profile,
\* every other table is in the result with the profile it has in a run
\* without the failure, and the result counts all tables.
C15_FailureIsolated ==
    failing # {} =>
        /\ mainPc # "raised"
        /\ mainPc = "done" =>
              /\ Len(profiles) = Len(tables_info)
              /\ \A t \in Range(tables_info) :
                    \E i \in 1..Len(profiles) :
                        profiles[i] = [name |-> t, minimal |-> t \in failing]

\* C23: in one Parallel process_tables call over distinct table names,
\* profile_table is invoked exactly once per input table under every
\* interleaving, never twice for one table, and the returned list holds
\* exactly one profile per input table whatever order the workers finish in.
C23_OncePerTable ==
    processor = "parallel" =>
        /\ \A t \in TableNames : invoked[t] <= 1
        /\ \A t \in TableNames \ Range(tables_info) : invoked[t] = 0
        /\ mainPc = "done" =>
              /\ \A t \in Range(tables_info) :
                    /\ invoked[t] = 1
                    /\ Cardinality({i \in 1..Len(profiles) :
                                       profiles[i].name = t}) = 1
              /\ Len(profiles) = Len(tables_info)

\* of two tables profiled by two workers, the one submitted second was
\* finished and collected first
C23_CollectedOutOfOrder ==
    /\ mainPc = "collect"
    /\ processor = "parallel"
    /\ Len(tables_info) = 2
    /\ config.max_workers = 2
    /\ collected = {tables_info[2]}
    /\ Len(profiles) = 1
    /\ \A t \in Range(tables_info) : invoked[t] = 1

\* a parallel run of two tables ended with one minimal and one whole profile
C15_ParallelIsolated ==
    /\ mainPc = "done"
    /\ processor = "parallel"
    /\ Len(tables_info) = 2
    /\ failing # {}
    /\ \E i, j \in 1..Len(profiles) : profiles[i].minimal /\ ~profiles[j].minimal

-----------------------------------------------------------------------------
(***************************************************************************)
(* Properties of UnifiedProfiler.profile_schema and of                     *)
(* IncrementalProfilingManager.profile_incremental (SpecInc).  While       *)
(* run.path is not "none" the database, the cache and the state file are   *)
(* as the call found and left them, and clock is the time of the call.     *)
(***************************************************************************)
\* C2: after an incremental run, result.tables holds a profile for every
\* table get_tables_info returned: a table that did not change and is not
\* cached is profiled, never left out.
C2_EveryTableProfiled ==
    run.path \in {"empty", "cached", "merged", "fallback"} =>
        \A t \in Range(run.tables) : t \in Names(run.result.tables)

\* C3: every SchemaProfile UnifiedProfiler.profile_schema returns, on the
\* full and on the incremental path, has total_tables = len(tables) and
\* total_columns = the sum of len(columns) over tables.
C3_TotalsMatch ==
    run.path \in {"full", "empty", "cached", "merged", "fallback"} =>
        /\ run.result.total_tables = Len(run.result.tables)
        /\ run.result.total_columns = SumColumns(run.result.tables)

\* C4: after an incremental run that completes without falling back (also
\* one in which no table changed) the persisted state is rewritten: its
\* last_profile_timestamp is the time of the run and the keys of its
\* table_states are exactly the current tables.
C4_StateRewritten ==
    (run.path \in {"cached", "merged"} /\ ~run.saveFailed) =>
        /\ stateFile.exists
        /\ stateFile.ts = clock
        /\ \A t \in DbTableNames :
              stateFile.table_states[t].known <=> t \in Range(run.tables)

\* C10: when a step of the incremental path raises, profile_incremental
\* returns what base_profiler.profile_schema(cfg) returns; when persisting
\* the state fails, the run still returns its merged profile.
C10_FallbackOnError ==
    /\ run.raised # "none" =>
          /\ run.path = "fallback"
          /\ run.result = ProfileSchemaFull(db, NoFaults)
    /\ run.saveFailed =>
          /\ run.path = "merged"
          /\ run.raised = "none"
          /\ Range(run.selected) \subseteq Names(run.result.tables)

\* _merge_profiles raised after tables were profiled, and the caller got the
\* full profile
C10_FellBackAfterProfiling ==
    /\ run.raised = "merge_profiles"
    /\ run.path = "fallback"
    /\ run.selected # <<>>
    /\ Len(run.result.tables) = Len(run.tables)

-----------------------------------------------------------------------------
(***************************************************************************)
(* Properties of DatabaseChangeDetector.identify_changed_tables            *)
(* (SpecDetect)                                                            *)
(***************************************************************************)
\* C7 as stated: identify_changed_tables returns all current tables when
\* force_full_profile is set or there is no previous state; otherwise it
\* returns exactly the current tables that are new, or whose hash differs
\* from the stored one, or whose row count changed beyond the threshold;
\* each at most once, and never a table that is not a current table.
C7_ExactSelection ==
    det.done =>
        LET prev == LoadState(stateFile)
            old(t) == prev.table_states[t]
            rows(t) == GetRowCount(db, t, det.faults)
            Differs(t) ==
                \/ ~old(t).known
                \/ ComputeTableSchemaHash(db, t, det.faults) # old(t).schema_hash
                \/ IF old(t).row_count > 0
                   THEN Abs(rows(t) - old(t).row_count) * 100
                           > cfgv.data_change_threshold * old(t).row_count
                   ELSE rows(t) > 0
        IN /\ Injective(det.selected)
           /\ Range(det.selected) \subseteq Range(det.tables)
           /\ IF cfgv.force_full_profile \/ ~prev.exists
              THEN det.selected = det.tables
              ELSE Range(det.selected) = {t \in Range(det.tables) : Differs(t)}

\* C7, amended: as stated when the previous state parses; when parsing the
\* previous state raises, identify_changed_tables returns all current tables.
C7_ExactSelectionWhenParsed ==
    det.done =>
        LET prev == LoadState(stateFile)
            old(t) == prev.table_states[t]
            rows(t) == GetRowCount(db, t, det.faults)
            Differs(t) ==
                \/ ~old(t).known
                \/ ComputeTableSchemaHash(db, t, det.faults) # old(t).schema_hash
                \/ IF old(t).row_count > 0
                   THEN Abs(rows(t) - old(t).row_count) * 100
                           > cfgv.data_change_threshold * old(t).row_count
                   ELSE rows(t) > 0
        IN /\ Injective(det.selected)
           /\ Range(det.selected) \subseteq Range(det.tables)
           /\ IF cfgv.force_full_profile \/ ~prev.exists
                   \/ prev.form = "unparseable"
              THEN det.selected = det.tables
              ELSE Range(det.selected) = {t \in Range(det.tables) : Differs(t)}

\* the previous state does not parse, it has an entry with the hash and the
\* row count of a current table, and that table is selected
C7_UnparseableSelectsAll ==
    /\ det.done
    /\ ~cfgv.force_full_profile
    /\ stateFile.form = "unparseable"
    /\ det.faults = NoFaults
    /\ \E t \in Range(det.selected) :
          /\ stateFile.table_states[t].known
          /\ stateFile.table_states[t].schema_hash = Md5(db[t].cols)
          /\ stateFile.table_states[t].row_count = db[t].rows

\* C9: a current table of the previous state whose hash lookup or row count
\* lookup fails is selected, also when the same lookup failed in the run that
\* wrote the previous state.
C9_FailedLookupSelected ==
    det.done =>
        \A t \in Range(det.tables) :
            t \in det.faults.metaFail \cup det.faults.rowFail
                => t \in Range(det.selected)

-----------------------------------------------------------------------------
(***************************************************************************)
(* Properties of DatabaseChangeDetector._has_data_changes (SpecData)       *)
(***************************************************************************)
\* C8: with a previous row count above 0 the data changed iff
\* |current - previous| / previous is strictly above the threshold; with a
\* previous row count of 0 it changed iff the current row count is above 0.
C8_DataChangeRule ==
    dc.done =>
        IF dc.previous > 0
        THEN dc.changed <=>
                Abs(dc.current - dc.previous) * 100 > dc.threshold * dc.previous
        ELSE dc.changed <=> dc.current > 0

\* a change of exactly the threshold (10 rows, then 11, threshold 0.10) is
\* not a data change
C8_AtThresholdUnchanged ==
    /\ dc.done
    /\ dc.previous = 10
    /\ dc.current = 11
    /\ dc.threshold = 10
    /\ ~dc.changed

-----------------------------------------------------------------------------
(***************************************************************************)
(* FileStateManager.save_state step by step (incremental_manager.py        *)
(* 118-140), with a load_state that may run between any two steps and a    *)
(* process that may stop at any step.  The states saved are numbered       *)
(* 1, 2, ...; a file holds the first `written` pieces of one of them.      *)
(***************************************************************************)
\* a file that holds a whole state
Complete(c) == c.version > 0 /\ c.written = MaxChunks

\* json.load and validate_state in load_state (lines 100-112): the state of a
\* whole file; None (0) for a missing file and for a file json.load rejects
JsonLoads(c) == IF Complete(c) THEN c.version ELSE 0

\* self.file_path.with_suffix('.tmp') (line 129): the state path itself when
\* its suffix is .tmp
TempPath(sameFile) == IF sameFile THEN "main" ELSE "tmp"

\* FileStateManager(file_path) with a path whose suffix is or is not .tmp
SaveInit ==
    /\ ProcIdle
    /\ IncIdle
    /\ det = NoDetection
    /\ dc = NoDataCheck
    /\ ExtIdleExcept("save")
    /\ disk = [main |-> NoContent, tmp |-> NoContent]
    /\ saver \in [pc : {"idle"}, version : {0}, saved : {0}, sameFile : BOOLEAN,
                  ran : {FALSE}, found : {NoContent}, loaded : {0}]

\* lines 120-129: mkdir, validate_state, temp_path; also by a new process
\* after the last one stopped
SaveStateStart ==
    /\ saver.pc \in {"idle", "stopped"}
    /\ saver.version < MaxSaves
    /\ saver' = [saver EXCEPT !.pc = "open", !.version = saver.version + 1]
    /\ UNCHANGED <<disk, notSave>>

\* line 130: open(temp_path, 'w') creates or truncates the file
OpenTemp ==
    /\ saver.pc = "open"
    /\ disk' = [disk EXCEPT ![TempPath(saver.sameFile)] =
                                [version |-> saver.version, written |-> 0]]
    /\ saver' = [saver EXCEPT !.pc = "write"]
    /\ UNCHANGED notSave

\* line 131: json.dump writes the next piece
WriteChunk ==
    /\ saver.pc = "write"
    /\ disk[TempPath(saver.sameFile)].written < MaxChunks
    /\ disk' = [disk EXCEPT ![TempPath(saver.sameFile)].written = @ + 1]
    /\ UNCHANGED <<saver, notSave>>

\* line 131: a write raises (the disk is full); lines 138-140 re-raise
WriteRaises ==
    /\ saver.pc = "write"
    /\ saver' = [saver EXCEPT !.pc = "idle"]
    /\ UNCHANGED <<disk, notSave>>

\* the end of the with block: the file is closed
CloseTemp ==
    /\ saver.pc = "write"
    /\ disk[TempPath(saver.sameFile)].written = MaxChunks
    /\ saver' = [saver EXCEPT !.pc = "replace"]
    /\ UNCHANGED <<disk, notSave>>

\* line 134: temp_path.replace(self.file_path)
ReplaceFile ==
    /\ saver.pc = "replace"
    /\ disk' = IF saver.sameFile THEN disk
               ELSE [main |-> disk.tmp, tmp |-> NoContent]
    /\ saver' = [saver EXCEPT !.pc = "idle", !.saved = saver.version]
    /\ UNCHANGED notSave

\* the process stops inside save_state
ProcessStops ==
    /\ saver.pc \in {"open", "write", "replace"}
    /\ saver' = [saver EXCEPT !.pc = "stopped"]
    /\ UNCHANGED <<disk, notSave>>

\* load_state (lines 97-116), in this or in another process, at any point
LoadStateNow ==
    /\ saver' = [saver EXCEPT !.ran = TRUE, !.found = disk.main,
                               !.loaded = JsonLoads(disk.main)]
    /\ UNCHANGED <<disk, notSave>>

SaveNext ==
    \/ SaveStateStart
    \/ OpenTemp
    \/ WriteChunk
    \/ WriteRaises
    \/ CloseTemp
    \/ ReplaceFile
    \/ ProcessStops
    \/ LoadStateNow

SpecSave == SaveInit /\ [][SaveNext]_vars

\* C11: at every step of save_state, and if the process stops at any step,
\* the file at the state path holds the whole previously saved state or the
\* whole new state, and a load_state at any point returns no partially
\* written state.
C11_AtomicSave ==
    /\ disk.main = NoContent \/ Complete(disk.main)
    /\ disk.main = NoContent => saver.saved = 0
    /\ disk.main.version \in {saver.saved, saver.version}
    /\ saver.ran =>
          /\ saver.found = NoContent \/ Complete(saver.found)
          /\ saver.loaded = saver.found.version

-----------------------------------------------------------------------------
(***************************************************************************)
(* FileStateManager.load_state on a given file (incremental_manager.py     *)
(* 97-116, 142-176) and the profile_incremental run that follows.  The     *)
(* file was written for the database as it is now (one entry per table,    *)
(* with the table's hash and row count) and then possibly damaged.         *)
(***************************************************************************)
RequiredFields == {"database_name", "last_profile_timestamp", "table_states"}

RequiredTableFields == {"table_name", "schema_hash", "row_count"}

\* a set with at most one element removed
AllButOne(S) == {S} \cup {S \ {x} : x \in S}

\* the documents a state file may hold
Documents ==
    [exists : BOOLEAN,                 \* the file is there
     json : BOOLEAN,                   \* json.load accepts it
     is_object : BOOLEAN,              \* the document is a JSON object
     fields : AllButOne(RequiredFields),
     timestamp_ok : BOOLEAN,           \* fromisoformat accepts the timestamp
     states_is_dict : BOOLEAN,
     entry_fields : AllButOne(RequiredTableFields \cup {"last_modified"}),
     version_matches : BOOLEAN]        \* profile_version is "2.0"

\* a validate_state that looks at the top level only
ValidateStateTopLevel(doc, hasEntries) ==
    /\ doc.is_object
    /\ RequiredFields \subseteq doc.fields
    /\ doc.timestamp_ok
    /\ doc.states_is_dict

\* FileStateManager.validate_state (lines 142-176)
ValidateState(doc, hasEntries) ==
    /\ doc.is_object
    /\ RequiredFields \subseteq doc.fields
    /\ doc.timestamp_ok
    /\ doc.states_is_dict
    /\ hasEntries => RequiredTableFields \subseteq doc.entry_fields

\* whether load_state catches what json.load raises (lines 114-116)
LoadStateCatches == TRUE

\* FileStateManager.load_state on a document: whether it raises and whether
\* it returns a state
LoadStateDoc(doc, hasEntries) ==
    IF ~doc.exists THEN [raised |-> FALSE, loaded |-> FALSE]
    ELSE IF ~doc.json THEN [raised |-> ~LoadStateCatches, loaded |-> FALSE]
    ELSE IF ~ValidateState(doc, hasEntries) THEN [raised |-> FALSE, loaded |-> FALSE]
    ELSE [raised |-> FALSE, loaded |-> TRUE]

\* the state file with this document, written for database d
FileOf(doc, d) ==
    LET hasEntries == \E t \in DbTableNames : d[t].present
        entry(t) ==
            IF d[t].present
            THEN [known |-> TRUE,
                  schema_hash |-> ComputeTableSchemaHash(d, t, NoFaults),
                  row_count |-> GetRowCount(d, t, NoFaults),
                  last_modified |-> 1,
                  structure_changed |-> FALSE,
                  data_changed |-> FALSE]
            ELSE NoEntry
    IN IF ~doc.exists THEN NoFile
       ELSE IF ~LoadStateDoc(doc, hasEntries).loaded THEN InvalidFile
       ELSE [exists |-> TRUE,
             form |-> IF hasEntries /\ "last_modified" \notin doc.entry_fields
                      THEN "unparseable" ELSE "valid",
             ts |-> 1,
             table_states |-> [t \in DbTableNames |-> entry(t)]]

LoadInit ==
    /\ ProcIdle
    /\ det = NoDetection
    /\ dc = NoDataCheck
    /\ ExtIdleExcept("load")
    /\ db \in [DbTableNames -> DbTables]
    /\ stateFile = NoFile
    /\ cache = [t \in DbTableNames |-> NoProfile]
    /\ clock = 0
    /\ cfgv = [incremental_enabled |-> TRUE, force_full_profile |-> FALSE,
               data_change_threshold |-> 0]
    /\ run = NoRun
    /\ ld \in {[NoLoad EXCEPT !.doc = doc] : doc \in Documents}

\* load_state (line 368) and the rest of profile_incremental
LoadAndRun ==
    /\ ~ld.done
    /\ \E res \in {LoadStateDoc(ld.doc,
                                \E t \in DbTableNames : db[t].present)},
          out \in {ProfileIncremental(db, FileOf(ld.doc, db), cache, 1, cfgv,
                                      NoFaults)} :
         ld' = [ld EXCEPT !.done = TRUE,
                          !.raised = res.raised,
                          !.loaded = res.loaded,
                          !.tables = out.tables,
                          !.selected = out.selected,
                          !.profiled = Names(out.result.tables)]
    /\ UNCHANGED notLoad

LoadNext == LoadAndRun

SpecLoad == LoadInit /\ [][LoadNext]_vars

\* C12: load_state never raises; it returns no state when the file is
\* missing, is not parseable, lacks database_name, last_profile_timestamp or
\* table_states, has a malformed timestamp, or has a table entry lacking
\* table_name, schema_hash or row_count; the run that follows profiles all
\* tables.
C12_DefectiveStateIgnored ==
    ld.done =>
        /\ ~ld.raised
        /\ (\/ ~ld.doc.exists
            \/ ~ld.doc.json
            \/ ~(RequiredFields \subseteq ld.doc.fields)
            \/ ~ld.doc.timestamp_ok
            \/ /\ ld.tables # <<>>
               /\ ~(RequiredTableFields \subseteq ld.doc.entry_fields))
           => /\ ~ld.loaded
              /\ ld.selected = ld.tables
              /\ ld.profiled = Range(ld.tables)

\* a file whose only defect is a table entry without schema_hash was
\* ignored, and every table was profiled
C12_EntryWithoutHashIgnored ==
    /\ ld.done
    /\ ld.doc = [WholeDocument EXCEPT
                   !.entry_fields = {"table_name", "row_count", "last_modified"}]
    /\ Len(ld.tables) = 2
    /\ ~ld.loaded
    /\ ld.profiled = Range(ld.tables)

\* C13: a persisted state whose profile_version differs from the running
\* implementation's is ignored: the run treats it as absent and profiles
\* every table.
C13_VersionMismatchIgnored ==
    (ld.done /\ ld.doc.exists /\ ~ld.doc.version_matches /\ ld.tables # <<>>) =>
        /\ ~ld.loaded
        /\ ld.selected = ld.tables
        /\ ld.profiled = Range(ld.tables)

-----------------------------------------------------------------------------
(***************************************************************************)
(* Two profile_incremental runs of one process in a row, with no fault and *)
(* nothing happening between them, on any database, configuration and      *)
(* state file found at the start.                                          *)
(***************************************************************************)
\* what a run chose and returned
RunRecord(out) ==
    [path |-> out.path, raised |-> out.raised, saveFailed |-> out.saveFailed,
     tables |-> out.tables, selected |-> out.selected, result |-> out.result]

TwiceInit ==
    /\ ProcIdle
    /\ det = NoDetection
    /\ dc = NoDataCheck
    /\ ExtIdleExcept("twice")
    /\ db \in [DbTableNames -> DbTables]
    /\ stateFile \in StateFiles
    /\ cache = [t \in DbTableNames |-> NoProfile]
    /\ clock = 0
    /\ cfgv \in {c \in IncConfigs : c.incremental_enabled}
    /\ run = NoRun
    /\ tw = NoRuns

FirstRun ==
    /\ tw.step = 0
    /\ \E out \in {ProfileIncremental(db, stateFile, cache, 1, cfgv, NoFaults)} :
         /\ tw' = [tw EXCEPT !.step = 1, !.first = RunRecord(out)]
         /\ cache' = out.cache
         /\ stateFile' = out.stateFile
    /\ clock' = 1
    /\ UNCHANGED <<db, cfgv, run, procVars, det, dc, saveVars, ld, opVars, lateVars>>

SecondRun ==
    /\ tw.step = 1
    /\ \E out \in {ProfileIncremental(db, stateFile, cache, 2, cfgv, NoFaults)} :
         /\ tw' = [tw EXCEPT !.step = 2, !.second = RunRecord(out)]
         /\ cache' = out.cache
         /\ stateFile' = out.stateFile
    /\ clock' = 2
    /\ UNCHANGED <<db, cfgv, run, procVars, det, dc, saveVars, ld, opVars, lateVars>>

TwiceNext == FirstRun \/ SecondRun

SpecTwice == TwiceInit /\ [][TwiceNext]_vars

-----------------------------------------------------------------------------
(***************************************************************************)
(* AdaptiveTableProcessor.process_tables as a function of the table list   *)
(* and the configuration (processing_strategies.py 136-146).  The          *)
(* configuration is one ProfilerConfig.validate accepts: max_workers and   *)
(* parallel_threshold are at least 1 (config.py 70-74).                    *)
(***************************************************************************)

\* the table lists: one of each length
TableLists == {[i \in 1..n |-> i] : n \in 0..MaxTableCount}

AdaptiveConfigs ==
    [parallel_threshold : 1..(MaxTableCount + 1), max_workers : 1..MaxPoolWorkers]

AdaptInit ==
    /\ ProcIdle
    /\ IncIdle
    /\ det = NoDetection
    /\ dc = NoDataCheck
    /\ ExtIdleExcept("adaptive")
    /\ ad \in [tables : TableLists, cfg : AdaptiveConfigs, used : {"none"}]

\* process_tables: line 141 picks the processor that handles the list
AdaptiveProcessTables ==
    /\ ad.used = "none"
    /\ ad' = [ad EXCEPT !.used = IF UseParallel(ad.cfg, ad.tables)
                                   THEN "parallel"
                                   ELSE "sequential"]
    /\ UNCHANGED <<notOps, pr, rc, mc, col>>

AdaptNext == AdaptiveProcessTables

SpecAdapt == AdaptInit /\ [][AdaptNext]_vars

\* C16: the Adaptive processor uses Parallel iff the list has at least
\* parallel_threshold tables and max_workers exceeds 1, Sequential otherwise;
\* so 8 tables under threshold 10 with 4 workers go sequentially, 12 go in
\* parallel, and one worker always means sequential.
C16_AdaptiveDispatch ==
    ad.used # "none" =>
        /\ ad.used \in {"parallel", "sequential"}
        /\ ad.used = "parallel" <=>
              (Len(ad.tables) >= ad.cfg.parallel_threshold /\ ad.cfg.max_workers > 1)
        /\ (Len(ad.tables) = 8 /\ ad.cfg.parallel_threshold = 10
               /\ ad.cfg.max_workers = 4) => ad.used = "sequential"
        /\ (Len(ad.tables) = 12 /\ ad.cfg.parallel_threshold = 10
               /\ ad.cfg.max_workers = 4) => ad.used = "parallel"
        /\ ad.cfg.max_workers = 1 => ad.used = "sequential"

\* a list exactly as long as the threshold went to the Parallel processor
C16_AtThresholdParallel ==
    /\ ad.used = "parallel"
    /\ Len(ad.tables) = 10
    /\ ad.cfg.parallel_threshold = 10
    /\ ad.cfg.max_workers = 4

-----------------------------------------------------------------------------
(***************************************************************************)
(* FieldPatternRecognizer (pattern_recognizer.py): one thread calls        *)
(* detect_patterns, another calls reload_patterns, and the configuration   *)
(* file is edited in between.  A map is modelled by the version of the     *)
(* file it was built from, 0 for the empty map; every version defines      *)
(* every key of PatternKeys with a regex.  A step is one statement.        *)
(***************************************************************************)

\* a lock that never makes its caller wait
CanAcquireAlways(holders, who) == TRUE

\* threading.RLock: free, or held by the caller itself
CanAcquire(holders, who) == holders \subseteq {who}

ReloadInit ==
    /\ ProcIdle
    /\ IncIdle
    /\ det = NoDetection
    /\ dc = NoDataCheck
    /\ ExtIdleExcept("reload")
    /\ pr = NoRecognizer

\* the configuration file gets another content
EditConfigFile ==
    /\ \E v \in (1..MaxVersion) \ {pr.file} : pr' = [pr EXCEPT !.file = v]
    /\ UNCHANGED <<notOps, ad, rc, mc, col>>

\* detect_patterns, "with self._patterns_lock:" (line 187)
DetectAcquire ==
    /\ pr.dpc \in {"idle", "done"}
    /\ CanAcquire(pr.holders, "detect")
    /\ pr' = [pr EXCEPT !.holders = @ \cup {"detect"}, !.dpc = "locked",
                        !.entry = pr.patterns, !.snapC = 0, !.snapP = 0,
                        !.todo = {}, !.tested = {}]
    /\ UNCHANGED <<notOps, ad, rc, mc, col>>

\* lines 188-190: return [] on an empty compiled map, else copy it
DetectCopyCompiled ==
    /\ pr.dpc = "locked"
    /\ pr' = IF pr.compiled = 0
             THEN [pr EXCEPT !.dpc = "done", !.holders = @ \ {"detect"}]
             ELSE [pr EXCEPT !.dpc = "copied", !.snapC = pr.compiled]
    /\ UNCHANGED <<notOps, ad, rc, mc, col>>

\* line 191: copy the definitions
DetectCopyPatterns ==
    /\ pr.dpc = "copied"
    /\ pr' = [pr EXCEPT !.dpc = "release", !.snapP = pr.patterns]
    /\ UNCHANGED <<notOps, ad, rc, mc, col>>

\* the end of the with block
DetectRelease ==
    /\ pr.dpc = "release"
    /\ pr' = [pr EXCEPT !.dpc = "loop", !.holders = @ \ {"detect"},
                        !.todo = IF pr.snapP = 0 THEN {} ELSE PatternKeys]
    /\ UNCHANGED <<notOps, ad, rc, mc, col>>

\* lines 207-236: the next key of patterns_snapshot is tested with its
\* definition and with its regex in compiled_patterns_snapshot
DetectTest ==
    /\ pr.dpc = "loop"
    /\ pr.todo # {}
    /\ LET k == CHOOSE x \in pr.todo : \A y \in pr.todo : x <= y
       IN  pr' = [pr EXCEPT !.todo = @ \ {k},
                            !.tested = @ \cup {<<k, pr.snapP, pr.snapC>>}]
    /\ UNCHANGED <<notOps, ad, rc, mc, col>>

\* line 238
DetectReturn ==
    /\ pr.dpc = "loop"
    /\ pr.todo = {}
    /\ pr' = [pr EXCEPT !.dpc = "done"]
    /\ UNCHANGED <<notOps, ad, rc, mc, col>>

\* reload_patterns -> _load_patterns, "with self._patterns_lock:" (line 72)
ReloadAcquire ==
    /\ pr.rpc = "idle"
    /\ CanAcquire(pr.holders, "reload")
    /\ pr' = [pr EXCEPT !.holders = @ \cup {"reload"}, !.rpc = "locked"]
    /\ UNCHANGED <<notOps, ad, rc, mc, col>>

\* lines 74-93: the file is read into new_patterns; when it is missing or
\* json.load raises, the maps are emptied one after the other instead
ReloadRead ==
    /\ pr.rpc = "locked"
    /\ \/ pr' = [pr EXCEPT !.rpc = "read", !.new = pr.file]
       \/ pr' = [pr EXCEPT !.rpc = "clearing", !.patterns = 0]
    /\ UNCHANGED <<notOps, ad, rc, mc, col>>

\* line 96: self.patterns = new_patterns
ReloadAssign ==
    /\ pr.rpc = "read"
    /\ pr' = [pr EXCEPT !.rpc = "assigned", !.patterns = pr.new]
    /\ UNCHANGED <<notOps, ad, rc, mc, col>>

\* line 99, _compile_patterns: self.compiled_patterns = new_compiled_patterns
\* (line 119), or an exception other than re.error reaches line 103
ReloadCompile ==
    /\ pr.rpc = "assigned"
    /\ \/ pr' = [pr EXCEPT !.rpc = "release", !.compiled = pr.patterns]
       \/ pr' = [pr EXCEPT !.rpc = "clearing", !.patterns = 0]
    /\ UNCHANGED <<notOps, ad, rc, mc, col>>

\* lines 77 and 106: self.compiled_patterns = {}
ReloadClearCompiled ==
    /\ pr.rpc = "clearing"
    /\ pr' = [pr EXCEPT !.rpc = "release", !.compiled = 0]
    /\ UNCHANGED <<notOps, ad, rc, mc, col>>

\* the end of the with block
ReloadRelease ==
    /\ pr.rpc = "release"
    /\ pr' = [pr EXCEPT !.rpc = "idle", !.holders = @ \ {"reload"}]
    /\ UNCHANGED <<notOps, ad, rc, mc, col>>

ReloadNext ==
    \/ EditConfigFile
    \/ DetectAcquire
    \/ DetectCopyCompiled
    \/ DetectCopyPatterns
    \/ DetectRelease
    \/ DetectTest
    \/ DetectReturn
    \/ ReloadAcquire
    \/ ReloadRead
    \/ ReloadAssign
    \/ ReloadCompile
    \/ ReloadClearCompiled
    \/ ReloadRelease

SpecReload == ReloadInit /\ [][ReloadNext]_vars

\* C17: a detect_patterns call that overlaps a reload_patterns call tests
\* every pattern against one version of the configuration, the one current
\* when it took its snapshot: a definition and the regex it is tested with
\* are of that same version, whatever the reload does afterwards, and a
\* finished detection has tested every pattern of that version.
C17_OneVersionPerDetection ==
    /\ \A x \in pr.tested : x[2] = pr.entry /\ x[3] = pr.entry
    /\ pr.dpc \in {"release", "loop"} => pr.snapP = pr.entry /\ pr.snapC = pr.entry
    /\ pr.dpc = "done" =>
          pr.tested = IF pr.entry = 0 THEN {}
                      ELSE {<<k, pr.entry, pr.entry>> : k \in PatternKeys}

\* a detection tested a pattern of the old version while a reload had already
\* replaced both maps
C17_TestedAfterReload ==
    /\ pr.dpc = "loop"
    /\ pr.tested # {}
    /\ pr.entry = 1
    /\ pr.patterns = 2
    /\ pr.compiled = 2

-----------------------------------------------------------------------------
(***************************************************************************)
(* SimplePatternRecognizer.detect_patterns (simple_pattern_recognizer.py   *)
(* 75-102) from the patterns that passed _test_pattern on: the list        *)
(* "detected" holds them in the order of the configuration file, each once *)
(* because self.patterns is a dict, and _resolve_conflicts (213-244) makes *)
(* the returned list of it.                                                *)
(***************************************************************************)

\* the names of the specificity table, and one name that is not in it
PatternNames ==
    {"npi_identifier", "email_address", "patient_id", "provider_id",
     "phone_number", "status_field", "person_name", "date_of_birth",
     "basic_id_fallback", "custom_pattern"}

\* specificity.get(x, 0) over the table of lines 219-229
Specificity(x) ==
    CASE x = "npi_identifier" -> 10
      [] x = "email_address" -> 9
      [] x = "patient_id" -> 8
      [] x = "provider_id" -> 8
      [] x = "phone_number" -> 7
      [] x = "status_field" -> 6
      [] x = "person_name" -> 5
      [] x = "date_of_birth" -> 5
      [] x = "basic_id_fallback" -> 1
      [] OTHER -> 0

\* a rule that lets only the NPI stand alone
VerySpecificNpiOnly == {"npi_identifier"}

\* the patterns of line 235, returned alone when they come first
VerySpecific == {"npi_identifier", "email_address"}

\* one step of the stable sort: x goes behind every element that is at least
\* as specific as it
InsertBySpecificity(seq, x) ==
    LET ahead == {i \in 1..Len(seq) : Specificity(seq[i]) >= Specificity(x)}
        k == IF ahead = {} THEN 0
             ELSE CHOOSE i \in ahead : \A j \in ahead : j <= i
    IN  SubSeq(seq, 1, k) \o <<x>> \o SubSeq(seq, k + 1, Len(seq))

RECURSIVE SortBySpecificity(_)
\* sorted(detected, key=specificity.get(x, 0), reverse=True): stable, equally
\* specific names keep the order of the input (line 232)
SortBySpecificity(seq) ==
    IF seq = <<>> THEN <<>>
    ELSE InsertBySpecificity(SortBySpecificity(SubSeq(seq, 1, Len(seq) - 1)),
                             seq[Len(seq)])

\* _resolve_conflicts
ResolveConflicts(detected) ==
    IF Len(detected) <= 1 THEN detected
    ELSE LET detected_sorted == SortBySpecificity(detected)
         IN  IF detected_sorted[1] \in VerySpecific
             THEN <<detected_sorted[1]>>
             ELSE IF Specificity(detected_sorted[2])
                        >= Specificity(detected_sorted[1]) - 2
                  THEN <<detected_sorted[1], detected_sorted[2]>>
                  ELSE <<detected_sorted[1]>>

\* the lists the loop of lines 96-98 can build
DetectedLists ==
    UNION {{s \in [1..n -> PatternNames] : Injective(s)} : n \in 0..MaxDetected}

ResolveInit ==
    /\ ProcIdle
    /\ IncIdle
    /\ det = NoDetection
    /\ dc = NoDataCheck
    /\ ExtIdleExcept("resolve")
    /\ rc \in [detected : DetectedLists, result : {<<>>}, done : {FALSE}]

\* detect_patterns returns _resolve_conflicts(detected, field_name)
DetectPatternsReturn ==
    /\ ~rc.done
    /\ rc' = [rc EXCEPT !.result = ResolveConflicts(rc.detected), !.done = TRUE]
    /\ UNCHANGED <<notOps, ad, pr, mc, col>>

ResolveNext == DetectPatternsReturn

SpecResolve == ResolveInit /\ [][ResolveNext]_vars

\* the greatest specificity among the names of S, -1 for no name
TopSpecificity(S) ==
    IF S = {} THEN -1
    ELSE CHOOSE n \in {Specificity(x) : x \in S} :
             \A x \in S : Specificity(x) <= n

\* C18: whatever patterns pass detection, the returned list has no
\* duplicates, is ordered by non-increasing specificity and has at most two
\* names; when the most specific detected pattern is npi_identifier or
\* email_address the list is that pattern alone, otherwise it is the most
\* specific pattern, followed by the next most specific one iff that one's
\* specificity is at least the top's minus 2.
C18_ResolvedList ==
    rc.done =>
        LET D == Range(rc.detected)
            res == rc.result
            rest == D \ {res[1]}
        IN  /\ Injective(res)
            /\ Len(res) <= 2
            /\ Range(res) \subseteq D
            /\ \A i \in 1..(Len(res) - 1) :
                  Specificity(res[i]) >= Specificity(res[i + 1])
            /\ D = {} => res = <<>>
            /\ D # {} =>
                  /\ Len(res) >= 1
                  /\ Specificity(res[1]) = TopSpecificity(D)
                  /\ res[1] \in {"npi_identifier", "email_address"} => Len(res) = 1
                  /\ res[1] \notin {"npi_identifier", "email_address"} =>
                        /\ Len(res) = 2 <=>
                              (rest # {} /\ TopSpecificity(rest)
                                              >= Specificity(res[1]) - 2)
                        /\ Len(res) = 2 =>
                              Specificity(res[2]) = TopSpecificity(rest)

\* three patterns passed, the e-mail address the most specific: it came back
\* alone although patient_id is within 2 of it
C18_EmailAlone ==
    /\ rc.done
    /\ Len(rc.detected) = 3
    /\ "patient_id" \in Range(rc.detected)
    /\ rc.result = <<"email_address">>

-----------------------------------------------------------------------------
(***************************************************************************)
(* MemoryProfileCache (incremental_manager.py 316-345) under the           *)
(* cache_profile calls of profile_incremental, one per profiled table      *)
(* (line 422).  Sizes are counted in tenths of a megabyte, the size the    *)
(* get_cache_stats estimate gives one entry.                               *)
(***************************************************************************)

CachedTableNames == 1..MaxCached

\* get_cache_stats()['estimated_size_mb'] = len(self.cache) * 0.1, in tenths
EstimatedSizeTenths(c) == Cardinality(c)

\* max_size_mb in tenths
LimitTenths(mb) == mb * 10

CacheInit ==
    /\ ProcIdle
    /\ IncIdle
    /\ det = NoDetection
    /\ dc = NoDataCheck
    /\ ExtIdleExcept("cache")
    /\ mc \in [cache : {{}}, max_size_mb : 0..MaxSizeMb, returned : {{}}]

\* the run profiles table t, hands it to cache_profile (self.cache[table_name]
\* = profile, line 331) and returns it in its result
CacheProfile ==
    /\ \E t \in CachedTableNames \ mc.returned :
          mc' = [mc EXCEPT !.cache = @ \cup {t}, !.returned = @ \cup {t}]
    /\ UNCHANGED <<notOps, ad, pr, rc, col>>

\* clear_cache
ClearCache ==
    /\ mc.cache # {}
    /\ mc' = [mc EXCEPT !.cache = {}]
    /\ UNCHANGED <<notOps, ad, pr, rc, col>>

CacheNext == CacheProfile \/ ClearCache

SpecCache == CacheInit /\ [][CacheNext]_vars

\* C19: once the cache's estimated size exceeds the configured limit,
\* cache_profile stores no further entry, so the estimated size never passes
\* the limit by more than the one entry that made it exceed; a profile that
\* was refused is still returned to the caller.
C19_CacheWithinLimit ==
    /\ EstimatedSizeTenths(mc.cache) <= LimitTenths(mc.max_size_mb) + 1
    /\ mc.cache \subseteq mc.returned

-----------------------------------------------------------------------------
(***************************************************************************)
(* MetadataExtractor.get_complete_table_metadata (metadata_extractor.py    *)
(* 327-373) on one table of a database of each dialect.  The table is      *)
(* given by what the database says of each column: whether it is part of   *)
(* the primary key, whether it is nullable, and whether another index      *)
(* (unique or plain) covers it.  The answers of the connector follow the   *)
(* dialect's queries (database_dialect.py).                                *)
(***************************************************************************)

DbTypes == {"mysql", "postgresql", "mssql"}

\* the tables a database can hold: a primary key column is NOT NULL
ColumnFacts ==
    {f \in [in_pk : BOOLEAN, is_nullable : {"YES", "NO"},
            index : {"none", "unique", "plain"}] :
        f.in_pk => f.is_nullable = "NO"}

\* _parse_nullable on the IS_NULLABLE string
ParseNullable(v) == v = "YES"

\* INFORMATION_SCHEMA.COLUMNS.COLUMN_KEY of MySQL
ColumnKey(f) ==
    IF f.in_pk THEN "PRI"
    ELSE IF f.index = "unique" THEN "UNI"
    ELSE IF f.index = "plain" THEN "MUL"
    ELSE ""

\* get_column_profiles: one ColumnProfile per row, the key flags only from
\* MySQL's column_key (lines 97-99)
ColumnProfileOf(db_type, f) ==
    [is_nullable |-> ParseNullable(f.is_nullable),
     is_primary_key |-> db_type = "mysql" /\ ColumnKey(f) = "PRI",
     is_unique |-> db_type = "mysql" /\ ColumnKey(f) \in {"PRI", "UNI"},
     is_indexed |-> FALSE]

\* get_primary_keys: the column names of the primary key
GetPrimaryKeys(table) == {c \in ColumnNames : table[c].in_pk}

\* get_indexes: the rows of the dialect's indexes_query.  MySQL's STATISTICS
\* lists the PRIMARY index; the PostgreSQL and SQL Server queries leave the
\* primary key's index out (NOT ix.indisprimary, i.is_primary_key = 0)
GetIndexes(db_type, table) ==
    {[column_name |-> c, is_unique |-> table[c].index = "unique"] :
        c \in {d \in ColumnNames : table[d].index # "none"}}
    \cup (IF db_type = "mysql"
          THEN {[column_name |-> c, is_unique |-> TRUE] :
                   c \in GetPrimaryKeys(table)}
          ELSE {})

\* enrich_column_profiles: marks primary key columns (301-303) and indexed
\* columns, unique when the index is (316-320)
EnrichColumnProfiles(columns, primary_keys, indexes) ==
    [c \in ColumnNames |->
        [columns[c] EXCEPT
            !.is_primary_key = @ \/ c \in primary_keys,
            !.is_indexed = \E ix \in indexes : ix.column_name = c,
            !.is_unique = @ \/ \E ix \in indexes :
                                  ix.column_name = c /\ ix.is_unique]]

ColumnsInit ==
    /\ ProcIdle
    /\ IncIdle
    /\ det = NoDetection
    /\ dc = NoDataCheck
    /\ ExtIdleExcept("columns")
    /\ col \in [db_type : DbTypes, table : [ColumnNames -> ColumnFacts],
                columns : {[c \in ColumnNames |-> BlankColumn]}, done : {FALSE}]

\* get_complete_table_metadata, whose columns profile_table puts into the
\* TableProfile
GetCompleteTableMetadata ==
    /\ ~col.done
    /\ col' = [col EXCEPT
                  !.columns = EnrichColumnProfiles(
                      [c \in ColumnNames |-> ColumnProfileOf(col.db_type, col.table[c])],
                      GetPrimaryKeys(col.table),
                      GetIndexes(col.db_type, col.table)),
                  !.done = TRUE]
    /\ UNCHANGED <<notOps, ad, pr, rc, mc>>

ColumnsNext == GetCompleteTableMetadata

SpecColumns == ColumnsInit /\ [][ColumnsNext]_vars

\* C20: in every profile, for every dialect, a column with is_primary_key is
\* also is_unique and not is_nullable.
C20_PrimaryKeyUniqueNotNull ==
    col.done =>
        \A c \in ColumnNames :
            col.columns[c].is_primary_key =>
                col.columns[c].is_unique /\ ~col.columns[c].is_nullable

-----------------------------------------------------------------------------
(***************************************************************************)
(* CoreSchemaProfiler.profile_table (core_profiler.py 102-153) on a table  *)
(* of one column, as far as sample data goes: lists are modelled by their  *)
(* lengths.  "matches" says whether the column's values fit a pattern of   *)
(* the recognizer.                                                         *)
(***************************************************************************)

SampleConfigs ==
    [sample_data_limit : 0..MaxSampleLimit, include_sample_data : BOOLEAN,
     pattern_recognition_enabled : BOOLEAN]

\* get_sample_data(table_name, limit): "LIMIT limit" and result[:limit]
GetSampleData(rows, limit) == Min(rows, limit)

\* get_complete_table_metadata: 'sample_data': self.get_sample_data(table_name)
\* (line 355), the limit left at its default
MetadataSampleData(rows, cfg) == GetSampleData(rows, DefaultSampleLimit)

\* enrich_column_profiles: sample_values from sample_data[:5] when there is
\* sample data (lines 321-323)
SampleValues(sample_data) == Min(sample_data, DefaultSampleLimit)

\* SimplePatternRecognizer.detect_patterns finds something in n values
DetectsPattern(n, matches) == n >= MinSampleSize /\ matches

\* _add_pattern_detection: nothing without table sample data or column values
AddPatternDetection(table_sample, values, matches) ==
    table_sample > 0 /\ values > 0 /\ DetectsPattern(values, matches)

SampleInit ==
    /\ ProcIdle
    /\ IncIdle
    /\ det = NoDetection
    /\ dc = NoDataCheck
    /\ ExtIdleExcept("sample")
    /\ sd \in [rows : 0..MaxTableRows, cfg : SampleConfigs, matches : BOOLEAN,
               sample_data : {0}, sample_values : {0}, detected : {FALSE},
               done : {FALSE}]

\* profile_table: the metadata, the TableProfile of lines 122-133 and the
\* pattern detection of lines 136-137
ProfileTableSample ==
    /\ ~sd.done
    /\ LET metadata_sample == MetadataSampleData(sd.rows, sd.cfg)
           table_sample == IF sd.cfg.include_sample_data
                           THEN metadata_sample ELSE 0
           values == SampleValues(metadata_sample)
       IN  sd' = [sd EXCEPT
                     !.sample_data = table_sample,
                     !.sample_values = values,
                     !.detected = sd.cfg.pattern_recognition_enabled
                                  /\ AddPatternDetection(table_sample, values,
                                                         sd.matches),
                     !.done = TRUE]
    /\ UNCHANGED <<notLate, sm, mq, qp, cf>>

SampleNext == ProfileTableSample

SpecSample == SampleInit /\ [][SampleNext]_vars

\* C21: a profiled table has at most sample_data_limit rows of sample data;
\* with sample_data_limit = 0 its sample_data is empty, its columns have no
\* sample_values and no column has a detected pattern.
C21_SampleWithinLimit ==
    sd.done =>
        /\ sd.sample_data <= sd.cfg.sample_data_limit
        /\ sd.cfg.sample_data_limit = 0 =>
              sd.sample_data = 0 /\ sd.sample_values = 0 /\ ~sd.detected

-----------------------------------------------------------------------------
(***************************************************************************)
(* The pattern_summary of a returned SchemaProfile, on the full path       *)
(* (OrchestatingProfiler.profile_schema, profiler_factory.py 146-158) and  *)
(* on the incremental path (IncrementalProfilingManager._merge_profiles,   *)
(* incremental_manager.py 453-485).  The tables are given by the           *)
(* detected_patterns of their columns; columns carry patterns only when    *)
(* pattern recognition is enabled (core_profiler.py 136-137).              *)
(***************************************************************************)

SummaryConfigs ==
    [validate_relationships : BOOLEAN, pattern_recognition_enabled : BOOLEAN]

\* _generate_pattern_summary: one count per pattern met in the columns
GeneratePatternSummary(columns) ==
    [p \in UNION {columns[c] : c \in ColumnSlots} |->
        Cardinality({c \in ColumnSlots : p \in columns[c]})]

\* CoreSchemaProfiler._analyze_schema_relationships, the summary it leaves
AnalyzeSchemaRelationships(summary, columns, cfg) ==
    IF ~cfg.validate_relationships THEN summary
    ELSE IF cfg.pattern_recognition_enabled
         THEN GeneratePatternSummary(columns)
         ELSE summary

\* _analyze_cross_table_relationships: one relationship per foreign key of a
\* table; fks are the columns that are foreign keys
AnalyzeCrossTableRelationships(fks) ==
    {[type |-> "foreign_key", from_column |-> c] : c \in fks}

\* CoreSchemaProfiler._analyze_schema_relationships, the
\* cross_table_relationships it leaves
AnalyzeSchemaCrossTable(relationships, fks, cfg) ==
    IF ~cfg.validate_relationships THEN relationships
    ELSE AnalyzeCrossTableRelationships(fks)

\* OrchestatingProfiler.profile_schema: the analysis only under
\* validate_relationships (line 157)
FullPathSummary(columns, cfg) ==
    IF cfg.validate_relationships
    THEN AnalyzeSchemaRelationships(EmptySummary, columns, cfg)
    ELSE EmptySummary

FullPathRelationships(fks, cfg) ==
    IF cfg.validate_relationships
    THEN AnalyzeSchemaCrossTable({}, fks, cfg)
    ELSE {}

\* _merge_profiles: a new SchemaProfile whose pattern_summary nothing sets
MergedSummary(columns, cfg) == EmptySummary

\* _merge_profiles: nor its cross_table_relationships
MergedRelationships(fks, cfg) == {}

SummaryInit ==
    /\ ProcIdle
    /\ IncIdle
    /\ det = NoDetection
    /\ dc = NoDataCheck
    /\ ExtIdleExcept("summary")
    /\ sm \in [columns : [ColumnSlots -> SUBSET PatternSet],
               cfg : SummaryConfigs, fks : SUBSET ColumnSlots, path : {"none"},
               summary : {EmptySummary}, relationships : {{}}, done : {FALSE}]
    /\ ~sm.cfg.pattern_recognition_enabled =>
          \A c \in ColumnSlots : sm.columns[c] = {}

\* what _analyze_schema_relationships makes of tables under a configuration
AnalyzeSchema(columns, fks, cfg) ==
    [pattern_summary |-> AnalyzeSchemaRelationships(EmptySummary, columns, cfg),
     cross_table_relationships |-> AnalyzeSchemaCrossTable({}, fks, cfg)]

\* UnifiedProfiler.profile_schema returns the profile of the full path
ReturnFullProfile ==
    /\ ~sm.done
    /\ sm' = [sm EXCEPT !.path = "full", !.done = TRUE,
                        !.summary = FullPathSummary(sm.columns, sm.cfg),
                        !.relationships = FullPathRelationships(sm.fks, sm.cfg)]
    /\ UNCHANGED <<notLate, sd, mq, qp, cf>>

\* profile_incremental returns the merged profile
ReturnMergedProfile ==
    /\ ~sm.done
    /\ sm' = [sm EXCEPT !.path = "incremental", !.done = TRUE,
                        !.summary = MergedSummary(sm.columns, sm.cfg),
                        !.relationships = MergedRelationships(sm.fks, sm.cfg)]
    /\ UNCHANGED <<notLate, sd, mq, qp, cf>>

SummaryNext == ReturnFullProfile \/ ReturnMergedProfile

SpecSummary == SummaryInit /\ [][SummaryNext]_vars

\* C22: in every returned SchemaProfile, on the full and on the incremental
\* path, pattern_summary[p] is the number of columns whose detected_patterns
\* holds p, and pattern_summary has no key for a pattern no column carries.
C22_SummaryIsHistogram ==
    sm.done =>
        /\ DOMAIN sm.summary = {p \in PatternSet :
                                   \E c \in ColumnSlots : p \in sm.columns[c]}
        /\ \A p \in DOMAIN sm.summary :
              sm.summary[p] = Cardinality({c \in ColumnSlots : p \in sm.columns[c]})

\* C24: the SchemaProfile profile_incremental returns after profiling changed
\* tables carries the cross_table_relationships and the pattern_summary that
\* the schema analysis computes from the merged tables.
C24_MergedProfileAnalysed ==
    (sm.done /\ sm.path = "incremental") =>
        LET analysed == AnalyzeSchema(sm.columns, sm.fks, sm.cfg)
        IN  /\ sm.relationships = analysed.cross_table_relationships
            /\ sm.summary = analysed.pattern_summary


(***************************************************************************)
(* C25: in the state file an incremental run writes, every current table   *)
(* has the schema hash and the row count computed in that run, a table the *)
(* run selected carries the run's time as last_modified, a table it did    *)
(* not select keeps exactly the last_modified of its entry in the previous *)
(* state, and structure_changed and data_changed are false in every entry. *)
(***************************************************************************)
\* the run of this step wrote the state file
StateWrittenByStep ==
    /\ clock' = clock + 1
    /\ run'.path = "merged"
    /\ stateFile'.exists
    /\ stateFile'.form = "valid"
    /\ stateFile'.ts = clock'

C25_WrittenEntries ==
    [][StateWrittenByStep =>
        \A t \in Range(run'.tables) :
            LET entry == stateFile'.table_states[t]
                previous == LoadState(stateFile).table_states[t]
            IN /\ entry.known
               /\ \E f \in Faults :
                     /\ entry.schema_hash = ComputeTableSchemaHash(db, t, f)
                     /\ entry.row_count = GetRowCount(db, t, f)
               /\ t \in Range(run'.selected) => entry.last_modified = clock'
               /\ t \notin Range(run'.selected) =>
                     /\ previous.known
                     /\ entry.last_modified = previous.last_modified
               /\ ~entry.structure_changed
               /\ ~entry.data_changed]_vars

\* a second run selected one table and left another one alone
C25_OneSelectedOneKept ==
    /\ run.path = "merged"
    /\ clock = 2
    /\ stateFile.exists /\ stateFile.form = "valid" /\ stateFile.ts = 2
    /\ \E t, u \in Range(run.tables) :
          /\ t \in Range(run.selected)
          /\ u \notin Range(run.selected)
          /\ stateFile.table_states[t].last_modified = 2
          /\ stateFile.table_states[u].last_modified = 1


(***************************************************************************)
(* get_complete_table_metadata when the connector raises on some of the    *)
(* sub-queries of the table (metadata_extractor.py 327-373,                *)
(* database_query.py 66-131).  The table is "t" with the columns "id" and  *)
(* "parent_id"; lists whose order plays no part are sets, sample data is   *)
(* its number of rows.                                                     *)
(***************************************************************************)
SubQueryTable == "t"

\* what the database holds for the table: the column_key of "id", the
\* primary key columns, the foreign keys, the indexed columns, the rows
SubQueryTables ==
    [column_key : {"PRI", "none"},
     primary_keys : {{}, {"id"}},
     foreign_keys : {{},
                     {[column_name |-> "parent_id", referenced_table |-> "t"]},
                     {[column_name |-> "parent_id", referenced_table |-> "u"]}},
     indexes : {{}, {"parent_id"}},
     rows : {0, 7}]

\* the rows of the column query
ColumnRows(table) ==
    {[column_name |-> "id", column_key |-> table.column_key],
     [column_name |-> "parent_id", column_key |-> "none"]}

\* a connector error that reaches the caller
ExecuteQueryUnsafe(raises, rows, empty) ==
    [raised |-> raises, rows |-> IF raises THEN empty ELSE rows]

\* _execute_query_safe, lines 66-90: the connector's result, or the empty
\* result when the connector raises
ExecuteQuerySafe(raises, rows, empty) ==
    [raised |-> FALSE, rows |-> IF raises THEN empty ELSE rows]

\* get_column_profiles, lines 68-103
SubGetColumnProfiles(table, failed) ==
    LET result == ExecuteQuerySafe("columns" \in failed, ColumnRows(table), {})
    IN [raised |-> result.raised,
        rows |-> {[name |-> row.column_name,
                   is_primary_key |-> row.column_key = "PRI",
                   is_foreign_key |-> FALSE, is_indexed |-> FALSE,
                   has_samples |-> FALSE] : row \in result.rows}]

\* get_primary_keys, get_foreign_keys, get_indexes: lines 105-175
SubGetList(table, failed, q) ==
    ExecuteQuerySafe(q \in failed, table[q], {})

\* get_sample_data, lines 177-202, called without a limit at line 355
SubGetSampleData(table, failed) ==
    ExecuteQuerySafe("sample_data" \in failed,
                     GetSampleData(table.rows, DefaultSampleLimit), 0)

\* get_row_count, lines 204-226
SubGetRowCount(table, failed) ==
    ExecuteQuerySafe("row_count" \in failed, table.rows, 0)

\* find_self_referencing_columns, lines 228-245
FindSelfReferencingColumns(foreign_keys, table_name) ==
    {fk.column_name : fk \in {k \in foreign_keys : k.referenced_table = table_name}}

\* the column names the patterns of lines 259-265 match
MatchesFkPattern(name) == name = "parent_id"

\* find_potential_fk_candidates, lines 247-278
FindPotentialFkCandidates(columns) ==
    {c.name : c \in {k \in columns : /\ ~k.is_foreign_key
                                     /\ ~k.is_primary_key
                                     /\ MatchesFkPattern(k.name)}}

\* enrich_column_profiles, lines 280-325
SubEnrichColumnProfiles(columns, primary_keys, foreign_keys, indexes, sample_data) ==
    {[name |-> c.name,
      is_primary_key |-> c.is_primary_key \/ c.name \in primary_keys,
      is_foreign_key |-> \E fk \in foreign_keys : fk.column_name = c.name,
      is_indexed |-> c.name \in indexes,
      has_samples |-> sample_data > 0] : c \in columns}

\* get_complete_table_metadata, lines 327-373
CompleteTableMetadata(table, failed) ==
    LET columns == SubGetColumnProfiles(table, failed)
        primary_keys == SubGetList(table, failed, "primary_keys")
        foreign_keys == SubGetList(table, failed, "foreign_keys")
        indexes == SubGetList(table, failed, "indexes")
        sample_data == SubGetSampleData(table, failed)
        row_count == SubGetRowCount(table, failed)
    IN IF \/ columns.raised \/ primary_keys.raised \/ foreign_keys.raised
          \/ indexes.raised \/ sample_data.raised \/ row_count.raised
       THEN [NoTableMetadata EXCEPT !.raised = TRUE]
       ELSE [raised |-> FALSE,
             columns |-> SubEnrichColumnProfiles(columns.rows, primary_keys.rows,
                             foreign_keys.rows, indexes.rows, sample_data.rows),
             primary_keys |-> primary_keys.rows,
             foreign_keys |-> foreign_keys.rows,
             indexes |-> indexes.rows,
             sample_data |-> sample_data.rows,
             row_count |-> row_count.rows,
             self_referencing_columns |->
                 FindSelfReferencingColumns(foreign_keys.rows, SubQueryTable),
             potential_fk_candidates |->
                 FindPotentialFkCandidates(columns.rows)]

SubQueriesInit ==
    /\ ProcIdle /\ IncIdle /\ det = NoDetection /\ dc = NoDataCheck
    /\ ExtIdleExcept("subqueries")
    /\ mq \in [failing : SUBSET SubQueryNames, table : SubQueryTables,
               metadata : {NoTableMetadata}, done : {FALSE}]

GetTableMetadataUnderFailures ==
    /\ ~mq.done
    /\ mq' = [mq EXCEPT !.metadata = CompleteTableMetadata(mq.table, mq.failing),
                        !.done = TRUE]
    /\ UNCHANGED <<notLate, sd, sm, qp, cf>>

SubQueriesNext == GetTableMetadataUnderFailures

SpecSubQueries == SubQueriesInit /\ [][SubQueriesNext]_vars

\* C26: whatever subset of the sub-queries of a table the connector raises
\* on, get_complete_table_metadata returns normally, the failed sub-queries
\* are empty (0 for the row count), the others hold what the database holds,
\* and the derived fields follow from the lists obtained.
C26_SubQueryFailuresIsolated ==
    mq.done =>
        LET m == mq.metadata
            failed(q) == q \in mq.failing
        IN /\ ~m.raised
           /\ {c.name : c \in m.columns} =
                 IF failed("columns") THEN {} ELSE {"id", "parent_id"}
           /\ m.primary_keys =
                 IF failed("primary_keys") THEN {} ELSE mq.table.primary_keys
           /\ m.foreign_keys =
                 IF failed("foreign_keys") THEN {} ELSE mq.table.foreign_keys
           /\ m.indexes = IF failed("indexes") THEN {} ELSE mq.table.indexes
           /\ m.sample_data =
                 IF failed("sample_data") THEN 0
                 ELSE Min(mq.table.rows, DefaultSampleLimit)
           /\ m.row_count = IF failed("row_count") THEN 0 ELSE mq.table.rows
           /\ m.self_referencing_columns =
                 {fk.column_name : fk \in
                    {k \in m.foreign_keys : k.referenced_table = SubQueryTable}}
           /\ \A c \in m.columns :
                 /\ c.is_foreign_key <=>
                       \E fk \in m.foreign_keys : fk.column_name = c.name
                 /\ c.is_indexed <=> c.name \in m.indexes
                 /\ c.name \in m.primary_keys => c.is_primary_key
                 /\ c.has_samples <=> m.sample_data > 0
           /\ m.potential_fk_candidates \subseteq {c.name : c \in m.columns}

\* the foreign key and the index queries failed on a table that has both,
\* and the columns came back without either mark
C26_TwoFailedOthersReal ==
    /\ mq.done
    /\ mq.failing = {"foreign_keys", "indexes"}
    /\ mq.table.foreign_keys # {} /\ mq.table.indexes # {}
    /\ mq.table.primary_keys = {"id"} /\ mq.table.rows = 7
    /\ mq.metadata.primary_keys = {"id"}
    /\ mq.metadata.row_count = 7
    /\ mq.metadata.foreign_keys = {}
    /\ \A c \in mq.metadata.columns : ~c.is_foreign_key /\ ~c.is_indexed
    /\ Cardinality(mq.metadata.columns) = 2


(***************************************************************************)
(* detect_patterns_with_confidence and validate_value next to              *)
(* reload_patterns (pattern_recognizer.py 278-297, 369-459, 577-600).      *)
(* Neither takes _patterns_lock: each reads self.patterns or               *)
(* self.compiled_patterns where its code names them.  The reloading thread *)
(* is the one of SpecReload; a version 0 is the empty map.                 *)
(***************************************************************************)
ConfidenceInit ==
    /\ ProcIdle /\ IncIdle /\ det = NoDetection /\ dc = NoDataCheck
    /\ ExtIdleExcept("confidence")
    /\ pr = NoRecognizer
    /\ cf = NoScoring

\* line 399: sorted(self.patterns.items(), ...) fixes the definitions the
\* loop goes through
ScoreSortPatterns ==
    /\ cf.spc \in {"idle", "done"}
    /\ cf' = [cf EXCEPT !.spc = "loop", !.sorted = pr.patterns,
                        !.todo = IF pr.patterns = 0 THEN {} ELSE PatternKeys,
                        !.scored = {}]
    /\ UNCHANGED <<notLate, sd, sm, mq, qp>>

\* lines 402-411 and _calculate_match_score, line 579: the definition of
\* the sorted list is scored with self.compiled_patterns.get(pattern_key)
\* as it is now
ScoreMatch ==
    /\ cf.spc = "loop"
    /\ cf.todo # {}
    /\ LET k == CHOOSE x \in cf.todo : \A y \in cf.todo : x <= y
       IN  cf' = [cf EXCEPT !.todo = @ \ {k},
                            !.scored = @ \cup {<<k, cf.sorted, pr.compiled>>}]
    /\ UNCHANGED <<notLate, sd, sm, mq, qp>>

\* line 459
ScoreReturn ==
    /\ cf.spc = "loop"
    /\ cf.todo = {}
    /\ cf' = [cf EXCEPT !.spc = "done"]
    /\ UNCHANGED <<notLate, sd, sm, mq, qp>>

\* validate_value, line 289: "pattern_key not in self.compiled_patterns"
ValidateCheckKey ==
    /\ cf.vpc \in {"idle", "done"}
    /\ cf' = IF pr.compiled = 0
             THEN [cf EXCEPT !.vpc = "done", !.validated = "False"]
             ELSE [cf EXCEPT !.vpc = "checked", !.validated = "none"]
    /\ UNCHANGED <<notLate, sd, sm, mq, qp>>

\* lines 296-297: self.compiled_patterns[pattern_key] is read again
ValidateMatch ==
    /\ cf.vpc = "checked"
    /\ cf' = [cf EXCEPT !.vpc = "done",
                        !.validated = IF pr.compiled = 0 THEN "KeyError"
                                      ELSE "matched"]
    /\ UNCHANGED <<notLate, sd, sm, mq, qp>>

ConfidenceNext ==
    \/ EditConfigFile
    \/ ReloadAcquire
    \/ ReloadRead
    \/ ReloadAssign
    \/ ReloadCompile
    \/ ReloadClearCompiled
    \/ ReloadRelease
    \/ ScoreSortPatterns
    \/ ScoreMatch
    \/ ScoreReturn
    \/ ValidateCheckKey
    \/ ValidateMatch

SpecConfidence == ConfidenceInit /\ [][ConfidenceNext]_vars

\* C27: detect_patterns_with_confidence running next to reload_patterns
\* never scores a pattern definition of one version of the configuration
\* with a compiled regex of another version.
C27_ScoredWithOwnVersion ==
    \A x \in cf.scored : x[3] \in {0, x[2]}


(***************************************************************************)
(* Termination of the parallel processor under fair scheduling: the main   *)
(* thread and the pool threads each take a step they can take              *)
(* (processing_strategies.py 59-121).  profile_table terminates:           *)
(* WorkerFinish is always enabled for a running task.                      *)
(***************************************************************************)
MainThreadStep ==
    \/ SequentialStart
    \/ SequentialStep
    \/ SequentialReturn
    \/ ParallelStart
    \/ Submit
    \/ SubmitDone
    \/ Collect
    \/ ParallelReturn

PoolThreadStep ==
    \/ WorkerTake
    \/ WorkerAcquire
    \/ WorkerFinish

SpecProcFair ==
    /\ ProcInit
    /\ [][ProcNext]_vars
    /\ WF_vars(MainThreadStep)
    /\ WF_vars(PoolThreadStep)

\* C28: for every accepted configuration and every table list, the empty
\* one included, a call of the parallel processor eventually returns its
\* list.
C28_ParallelReturns ==
    (mainPc = "call" /\ ChosenProcessor(config, tables_info) = "parallel")
        ~> (mainPc = "done")

\* the same call returns when the list is not empty and the semaphore has a
\* permit
ParallelReturnsWithPermits ==
    (mainPc = "call" /\ ChosenProcessor(config, tables_info) = "parallel"
       /\ config.max_connections >= 1 /\ tables_info # <<>>)
        ~> (mainPc = "done")


(***************************************************************************)
(* Two incremental runs over one database, the first one with a            *)
(* profile_table that fails on one table after its queries and returns the *)
(* minimal profile (core_profiler.py 139-153; incremental_manager.py       *)
(* 408-428, 487-545), the second one with nothing going wrong.             *)
(***************************************************************************)
\* profile_table fails on no table or on one
ProfileFaults ==
    {NoFaults} \cup {[NoFaults EXCEPT !.profileFail = {t}] : t \in DbTableNames}

RetryInit ==
    /\ ProcIdle
    /\ ExtIdle
    /\ det = NoDetection
    /\ dc = NoDataCheck
    /\ db \in [DbTableNames -> DbTables]
    /\ stateFile = NoFile
    /\ cache = [t \in DbTableNames |-> NoProfile]
    /\ clock = 0
    /\ cfgv \in IncConfigs
    /\ run = NoRun

ProfileSchemaFailing ==
    /\ clock = 0
    /\ ProfileSchemaUnder(ProfileFaults)

ProfileSchemaRetry ==
    /\ clock = 1
    /\ ProfileSchemaUnder({NoFaults})

RetryNext == ProfileSchemaFailing \/ ProfileSchemaRetry

SpecRetry == RetryInit /\ [][RetryNext]_vars

\* C29: when profile_table of a table an incremental run selected came back
\* with the minimal profile, the next incremental run over the unchanged
\* database selects that table again.
C29_FailedTableSelectedAgain ==
    [][(/\ clock' = clock + 1
        /\ run.path = "merged"
        /\ run'.path \in {"cached", "merged"})
       => run.failed \subseteq Range(run'.selected)]_vars


(***************************************************************************)
(* The bind parameters of a metadata query (database_query.py 37-64,       *)
(* 181-211) against the placeholders of its text (database_dialect.py      *)
(* 14-217).  An empty schema_name is the unset one.                        *)
(***************************************************************************)
DbTypeNames == {"mysql", "postgresql", "mssql", "oracle"}

MetadataQueries ==
    {"tables_query", "table_info_query", "primary_keys_query",
     "foreign_keys_query", "indexes_query"}

DatabaseName == "d"

\* DatabaseDialect.__init__, line 217: an unknown type gets the PostgreSQL
\* templates
Dialect(db_type) ==
    IF db_type \in {"mysql", "postgresql", "mssql"} THEN db_type
    ELSE "postgresql"

\* the number of %s or ? in the text of a query of DIALECTS
Placeholders(dialect, query) ==
    IF dialect = "mysql" THEN (IF query = "tables_query" THEN 1 ELSE 2)
    ELSE IF dialect = "postgresql" THEN 2
    ELSE IF query = "table_info_query" THEN 2 ELSE 1

\* _get_query_parameters, lines 37-64; table_name "" is None
GetQueryParameters(db_type, schema_name, table_name) ==
    IF db_type = "mssql"
    THEN (IF table_name # "" THEN <<table_name>> ELSE <<DatabaseName>>)
    ELSE IF db_type = "postgresql"
    THEN LET schema == IF schema_name # "" THEN schema_name ELSE "public"
         IN IF table_name # "" THEN <<schema, table_name>>
            ELSE <<schema, schema>>
    ELSE LET schema == IF schema_name # "" THEN schema_name ELSE DatabaseName
         IN IF table_name # "" THEN <<schema, table_name>> ELSE <<schema>>

QueryInit ==
    /\ ProcIdle /\ IncIdle /\ det = NoDetection /\ dc = NoDataCheck
    /\ ExtIdleExcept("parameters")
    /\ qp \in [db_type : DbTypeNames, query : MetadataQueries,
               schema_name : {"", "s"}, table_name : {"t", "u"},
               placeholders : {0}, params : {<<>>}, done : {FALSE}]

\* _get_metadata_with_dialect, lines 181-211: the text comes from the
\* dialect, the parameters from _get_query_parameters; get_tables_info
\* passes no table name
GetMetadataWithDialect ==
    /\ ~qp.done
    /\ qp' = [qp EXCEPT
                !.placeholders = Placeholders(Dialect(qp.db_type), qp.query),
                !.params = GetQueryParameters(qp.db_type, qp.schema_name,
                              IF qp.query = "tables_query" THEN ""
                              ELSE qp.table_name),
                !.done = TRUE]
    /\ UNCHANGED <<notLate, sd, sm, mq, cf>>

QueryNext == GetMetadataWithDialect

SpecParams == QueryInit /\ [][QueryNext]_vars

\* C30: for every database type, the unknown one included, and every
\* metadata query, the parameter list has as many entries as the query text
\* has bind placeholders.
C30_ParametersMatchPlaceholders ==
    qp.done => Len(qp.params) = qp.placeholders

=========================================================================
